---- MODULE Spec2Model ----
(***************************************************************************)
(* Bridge transaction lifecycle of the CCTP bridge: the bridge_transactions *)
(* table, the CCTPService methods that write it, the API route handlers    *)
(* that call them, and the attestation worker.  Every `await` of a handler *)
(* that touches the store is a separate step, so handlers interleave as    *)
(* they do on the event loop and across server processes.                  *)
(*                                                                         *)
(* Text values (hashes, message bytes, attestations) are tuples of tokens, *)
(* so that the empty string <<>> and SQL NULL are both representable.      *)
(***************************************************************************)
EXTENDS Integers, Sequences, FiniteSets, TLC

(* ---------------------------- bounds ---------------------------------- *)
\* number of bridge_transactions rows that may be inserted
MaxTx == 2
\* store-side cap on attestation_attempts at which new checks stop being issued
MaxChecks == 2
\* the worker's MAX_ATTEMPTS (120 in attestation-worker.ts), scaled down
MaxAttempts == 2

(* ---------------------------- values ---------------------------------- *)
NULL == <<"NULL">>
EMPTY == <<>>
\* JavaScript truthiness of a string | null | undefined value
Truthy(s) == s # NULL /\ s # EMPTY

\* ids a caller may name: the first row's id and an id that matches no row
CallerIds == {1, 0}
Procs == {"p1", "p2"}

STARKNET_DOMAIN_ID == 25

\* supported_chains as loaded by loadChainConfig (mainnet rows): domain -> chain_type
chainConfigCache ==
    [d \in {0, 2, 3, 5, 6, 7, 25} |->
        IF d = 25 THEN "starknet" ELSE IF d = 5 THEN "solana" ELSE "evm"]

\* getChainConfig: the type of a registered domain, "undefined" otherwise
getChainConfig(d) ==
    IF d \in DOMAIN chainConfigCache THEN chainConfigCache[d] ELSE "undefined"

\* domains a caller may send: an EVM chain, Solana, Starknet, an unregistered one
DomainInputs == {0, 5, 25, 9}

isValidBridgePair_SourceOnly(sourceDomain, destDomain) ==
    sourceDomain = STARKNET_DOMAIN_ID

isValidBridgePair(sourceDomain, destDomain) ==
    sourceDomain = STARKNET_DOMAIN_ID \/ destDomain = STARKNET_DOMAIN_ID

(* ----------------------- message hash --------------------------------- *)
startsWith0x(s) == Len(s) > 0 /\ s[1] = "0x"

\* keccak256 as an injective function of the normalized bytes
keccak256(bytes) == <<"keccak256">> \o bytes

computeMessageHash(messageBytes) ==
    keccak256(IF startsWith0x(messageBytes) THEN messageBytes ELSE <<"0x">> \o messageBytes)

(* ----------------------- attestation service -------------------------- *)
TxHashes == {<<"0x", "b1">>, <<"0x", "b2">>}
MintHashes == {<<"0x", "c1">>}
AUTO_MINT == <<"auto-mint-by-circle">>
PENDING == <<"PENDING">>

\* the message a burn transaction emitted, as the service reports it
IrisMessage(txHash) == <<"0x", "msg">> \o Tail(txHash)
IrisNonce(txHash) == <<"0x", "nonce">> \o Tail(txHash)
IrisAttestation(txHash) == <<"0x", "att">> \o Tail(txHash)

IrisMsg(txHash, att, st) ==
    [message |-> IrisMessage(txHash), attestation |-> att,
     eventNonce |-> IrisNonce(txHash), status |-> st]

\* a message the service lists with no bytes yet
IrisBlankMsg(txHash) ==
    [IrisMsg(txHash, PENDING, "pending_confirmations") EXCEPT !.message = EMPTY]

\* raw outcomes of GET /v2/messages/{domain}?transactionHash=...
IrisResponses(txHash) ==
    { [kind |-> "error", messages |-> <<>>],
      [kind |-> "404", messages |-> <<>>],
      [kind |-> "ok", messages |-> <<>>],
      [kind |-> "ok", messages |-> <<IrisBlankMsg(txHash)>>],
      [kind |-> "ok", messages |-> <<IrisMsg(txHash, PENDING, "pending_confirmations")>>],
      [kind |-> "ok", messages |-> <<IrisMsg(txHash, <<"att">> \o Tail(txHash), "complete")>>],
      [kind |-> "ok", messages |-> <<IrisMsg(txHash, IrisAttestation(txHash), "complete")>>] }

NoData == [kind |-> "null"]
Thrown == [kind |-> "throw"]

getMessageFromTx_AnyAttestation(resp) ==
    IF resp.kind = "404" THEN NoData
    ELSE IF resp.kind = "error" THEN Thrown
    ELSE IF Len(resp.messages) > 0
         THEN LET msg == resp.messages[1]
              IN [kind |-> "data", message |-> msg.message, eventNonce |-> msg.eventNonce,
                  attestation |-> IF Truthy(msg.attestation) THEN msg.attestation ELSE NULL]
         ELSE NoData

\* getMessageFromTx applied to a raw response: thrown, null, or the first message
getMessageFromTx(resp) ==
    IF resp.kind = "404" THEN NoData
    ELSE IF resp.kind = "error" THEN Thrown
    ELSE IF Len(resp.messages) > 0
         THEN LET msg == resp.messages[1]
                  hasValidAttestation ==
                      Truthy(msg.attestation) /\ msg.attestation # PENDING
                      /\ startsWith0x(msg.attestation)
              IN [kind |-> "data", message |-> msg.message, eventNonce |-> msg.eventNonce,
                  attestation |-> IF hasValidAttestation THEN msg.attestation ELSE NULL]
         ELSE NoData

\* checkMessageDelivered applied to a raw response
checkMessageDelivered(resp, isStarknetDest) ==
    IF resp.kind # "ok" THEN FALSE
    ELSE IF Len(resp.messages) > 0
         THEN LET msg == resp.messages[1]
              IN IF isStarknetDest
                 THEN msg.status = "complete" /\ Truthy(msg.attestation)
                      /\ msg.attestation # PENDING
                 ELSE msg.status \in {"delivered", "received", "minted"}
         ELSE FALSE

(* ---------------------------- state ----------------------------------- *)
VARIABLES
    txs,     \* bridge_transactions: id -> row
    req,     \* request handlers in flight: proc -> locals
    last,    \* the response most recently returned to a caller
    running, \* AttestationWorker.running
    jobs,    \* AttestationWorker.jobs: id -> job
    wrk,     \* processJob calls in flight: id -> locals
    poller,  \* AttestationWorker with its timer, clock and notification channel
    registry, \* chain registry: supported_chains, chainConfigCache, reloads in flight
    calc     \* the latest call of a pure function: its name, arguments and result

vars == <<txs, req, last, running, jobs, wrk, poller, registry, calc>>
worker == <<running, jobs, wrk, poller, registry, calc>>

NewRow(s, d) ==
    [sourceDomainId |-> s, destDomainId |-> d,
     burnTxHash |-> NULL, messageBytes |-> NULL, messageHash |-> NULL, nonce |-> NULL,
     attestation |-> NULL, attestationStatus |-> "pending", attestationAttempts |-> 0,
     mintTxHash |-> NULL, status |-> "initiated", errorMessage |-> NULL]

Idle ==
    [pc |-> "idle", op |-> "none", id |-> 0, txHash |-> NULL, messageBytes |-> NULL,
     nonce |-> NULL, snapHash |-> NULL, ret |-> NULL, via |-> "none"]

NoResponse ==
    [op |-> "none", result |-> "none", id |-> 0, src |-> 0, dst |-> 0, lookup |-> "none",
     mint |-> "n/a"]

\* a response as the log keeps it; a run that keeps no log leaves it untouched
Unobserved == [NoResponse EXCEPT !.op = "unobserved"]

Response(op, result, id) ==
    IF last = Unobserved THEN Unobserved
    ELSE [NoResponse EXCEPT !.op = op, !.result = result, !.id = id]

Free(p) == req[p].pc = "idle"

\* no pure function has been called
NoCalc == [fn |-> "none", arg |-> <<>>, out |-> <<>>]

\* no loadChainConfig call in flight
NoLoad == [pc |-> "idle", rows |-> <<>>]

\* the registry after the load at application startup: the cache holds the
\* rows of supported_chains; seen is the latest lookup and what it returned
LoadedRegistry ==
    [table |-> chainConfigCache, cache |-> chainConfigCache,
     loads |-> [p \in Procs |-> NoLoad], seen |-> [domainId |-> 0, type |-> "none"]]

\* no timer armed (processingTimer = null)
NoTimer == [kind |-> "none", at |-> 0]

\* the AttestationWorker as constructed: not running, no job, no timer; objs
\* holds every job object ever created, jobs maps an id to the object the
\* Map holds for it, calls are the processJob calls in flight, notif the
\* attestation_needed notifications sent and not yet delivered, deduped
\* whether enqueueJob has yet returned early on a tracked id, stop where a
\* stop() call stands, reconnect where a reconnect() call stands
NoPoller ==
    [running |-> FALSE, listening |-> FALSE, objs |-> <<>>, jobs |-> <<>>,
     timer |-> NoTimer, now |-> 0, calls |-> {}, nbatch |-> 0, scans |-> 0,
     faults |-> 0, notif |-> {}, deduped |-> FALSE, stop |-> "none", reconnect |-> "none"]

Init ==
    /\ txs = <<>>
    /\ req = [p \in Procs |-> Idle]
    /\ last = Unobserved
    /\ running = FALSE
    /\ jobs = <<>>
    /\ wrk = <<>>
    /\ poller = NoPoller
    /\ registry = LoadedRegistry
    /\ calc = NoCalc

Exists(id) == id \in DOMAIN txs

(* ------------------------- initiateBridge ------------------------------ *)
buildBurnTxData_AnyDest(sourceType, destType) ==
    IF sourceType \in {"evm", "starknet", "solana"} /\ destType # "undefined"
    THEN sourceType ELSE "throw"

\* buildBurnTxData: the payload family built for a source/destination pair of
\* chain types, or "throw" when the family's builder rejects the destination
buildBurnTxData(sourceType, destType) ==
    IF sourceType = "evm" THEN IF destType = "undefined" THEN "throw" ELSE "evm"
    ELSE IF sourceType = "starknet"
         THEN IF destType \in {"evm", "solana"} THEN "starknet" ELSE "throw"
    ELSE IF sourceType = "solana"
         THEN IF destType \in {"starknet", "evm"} THEN "solana" ELSE "throw"
    ELSE "throw"

\* the outcome of initiateBridge for a pair of domains
initiateOutcome(s, d) ==
    IF ~isValidBridgePair(s, d) THEN "InvalidPair"
    ELSE IF getChainConfig(s) = "undefined" \/ getChainConfig(d) = "undefined"
         THEN "UnknownChain"
    ELSE IF buildBurnTxData(getChainConfig(s), getChainConfig(d)) = "throw"
         THEN "BuildError"
    ELSE "ok"

\* POST /api/bridge/initiate -> CCTPService.initiateBridge.  Validation is
\* synchronous, the INSERT is the only await, the payload is built after it.
Initiate(p, s, d) ==
    /\ UNCHANGED worker
    /\ Free(p)
    /\ LET out == initiateOutcome(s, d)
           inserted == out \in {"ok", "BuildError"}
           newId == Len(txs) + 1
       IN /\ inserted => newId <= MaxTx
          /\ txs' = IF inserted THEN Append(txs, NewRow(s, d)) ELSE txs
          /\ last' = [Response("initiate", out, IF inserted THEN newId ELSE 0)
                         EXCEPT !.src = IF last = Unobserved THEN 0 ELSE s,
                                !.dst = IF last = Unobserved THEN 0 ELSE d]
          /\ UNCHANGED req

(* --------------------------- recordBurnTx ------------------------------ *)
BurnBodies ==
    { [messageBytes |-> NULL, nonce |-> NULL],
      [messageBytes |-> NULL, nonce |-> <<"7">>],
      [messageBytes |-> <<"aa">>, nonce |-> <<"7">>] }

OrNull(s) == IF Truthy(s) THEN s ELSE NULL

recordBurnTx_LookupFatal(row, txHash, messageBytes, nonce, md) ==
    IF ~Truthy(messageBytes) /\ md.kind = "throw" THEN row
    ELSE LET fetched == ~Truthy(messageBytes) /\ md.kind = "data"
             finalMessageBytes == IF fetched THEN md.message ELSE messageBytes
             finalNonce == IF fetched THEN md.eventNonce ELSE nonce
         IN [row EXCEPT !.burnTxHash = txHash,
                        !.messageBytes = OrNull(finalMessageBytes),
                        !.messageHash = IF Truthy(finalMessageBytes)
                                        THEN computeMessageHash(finalMessageBytes) ELSE NULL,
                        !.nonce = OrNull(finalNonce),
                        !.status = "burned"]

\* the row written by recordBurnTx, md being the outcome of its message lookup
recordBurnTx(row, txHash, messageBytes, nonce, md) ==
    LET fetched == ~Truthy(messageBytes) /\ md.kind = "data"
        finalMessageBytes == IF fetched THEN md.message ELSE messageBytes
        finalNonce == IF fetched THEN md.eventNonce ELSE nonce
        messageHash == IF Truthy(finalMessageBytes)
                       THEN computeMessageHash(finalMessageBytes) ELSE NULL
    IN [row EXCEPT !.burnTxHash = txHash,
                   !.messageBytes = OrNull(finalMessageBytes),
                   !.messageHash = messageHash,
                   !.nonce = OrNull(finalNonce),
                   !.status = "burned"]

\* whether the burn route rejects the report as already recorded
burnAlreadyRecorded_Never(tx) == FALSE

burnAlreadyRecorded(tx) == Truthy(tx.burnTxHash)

\* POST /api/bridge/[id]/burn up to its first store read
BurnRead(p, id, txHash, body) ==
    /\ UNCHANGED worker
    /\ Free(p)
    /\ IF ~Exists(id)
       THEN /\ last' = Response("burn", "NotFound", id)
            /\ UNCHANGED req
       ELSE IF burnAlreadyRecorded(txs[id])
       THEN /\ last' = Response("burn", "AlreadyBurned", id)
            /\ UNCHANGED req
       ELSE /\ req' = [req EXCEPT ![p] =
                          [Idle EXCEPT !.pc = "burn_write", !.op = "burn", !.id = id,
                                       !.txHash = txHash,
                                       !.messageBytes = body.messageBytes,
                                       !.nonce = body.nonce]]
            /\ UNCHANGED last
    /\ UNCHANGED txs

\* the route's success response, with the outcome of the lookup recordBurnTx made
BurnResponse(r, md) ==
    IF last = Unobserved THEN Unobserved
    ELSE [Response("burn", "ok", r.id) EXCEPT
             !.lookup = IF Truthy(r.messageBytes) THEN "none" ELSE md.kind]

\* recordBurnTx: the optional message lookup, then the UPDATE keyed by id
BurnWrite(p) ==
    /\ UNCHANGED worker
    /\ req[p].pc = "burn_write"
    /\ LET r == req[p]
       IN \E resp \in IrisResponses(r.txHash) :
            LET md == getMessageFromTx(resp)
            IN /\ txs' = [txs EXCEPT ![r.id] =
                             recordBurnTx(@, r.txHash, r.messageBytes, r.nonce, md)]
               /\ req' = [req EXCEPT ![p] = Idle]
               /\ last' = BurnResponse(r, md)

(* ------------------------- checkAttestation ---------------------------- *)
\* checkAttestation returns the stored attestation without any further call
checkEarlyComplete_Never(tx) == FALSE

checkEarlyComplete(tx) == tx.attestationStatus = "complete" \/ tx.status = "completed"

\* the row after checkAttestation's UPDATE, md being the lookup outcome
checkAttestationUpdate_NoHash(row, md) ==
    IF md.kind = "throw" THEN row
    ELSE IF md.kind = "null"
         THEN [row EXCEPT !.attestationAttempts = @ + 1]
    ELSE IF Truthy(md.attestation)
         THEN [row EXCEPT !.messageBytes = md.message,
                          !.nonce = md.eventNonce,
                          !.attestation = md.attestation,
                          !.attestationStatus = "complete",
                          !.status = "attested",
                          !.attestationAttempts = @ + 1]
    ELSE [row EXCEPT !.messageBytes = md.message,
                     !.nonce = md.eventNonce,
                     !.attestationAttempts = @ + 1]

checkAttestationUpdate_StatusOnly(row, md) ==
    IF md.kind = "throw" THEN row
    ELSE IF md.kind = "null"
         THEN [row EXCEPT !.attestationAttempts = @ + 1]
    ELSE IF Truthy(md.attestation)
         THEN [row EXCEPT !.messageBytes = md.message,
                          !.messageHash = computeMessageHash(md.message),
                          !.nonce = md.eventNonce,
                          !.attestation = md.attestation,
                          !.status = "attested",
                          !.attestationAttempts = @ + 1]
    ELSE [row EXCEPT !.messageBytes = md.message,
                     !.messageHash = computeMessageHash(md.message),
                     !.nonce = md.eventNonce,
                     !.attestationAttempts = @ + 1]

checkAttestationUpdate(row, md) ==
    IF md.kind = "throw" THEN row
    ELSE IF md.kind = "null"
         THEN [row EXCEPT !.attestationAttempts = @ + 1]
    ELSE IF Truthy(md.attestation)
         THEN [row EXCEPT !.messageBytes = md.message,
                          !.messageHash = computeMessageHash(md.message),
                          !.nonce = md.eventNonce,
                          !.attestation = md.attestation,
                          !.attestationStatus = "complete",
                          !.status = "attested",
                          !.attestationAttempts = @ + 1]
    ELSE [row EXCEPT !.messageBytes = md.message,
                     !.messageHash = computeMessageHash(md.message),
                     !.nonce = md.eventNonce,
                     !.attestationAttempts = @ + 1]

\* the value checkAttestation returns after the lookup
checkAttestationReturn(md) ==
    IF md.kind = "data" /\ Truthy(md.attestation) THEN md.attestation ELSE NULL

recordMintTx(row, txHash) ==
    [row EXCEPT !.mintTxHash = txHash, !.status = "completed"]

markFailed_StatusOnly(row, errorMessage) == [row EXCEPT !.status = "failed"]

markFailed(row, errorMessage) ==
    [row EXCEPT !.status = "failed", !.errorMessage = errorMessage]

(* ------------------- GET /api/bridge/[id]/status ----------------------- *)
\* buildMintTxData: the payload family built for a destination chain type, or
\* "throw" when the family's builder fails (the Solana builder is given an
\* empty recipient, which PublicKey rejects)
buildMintTxData(destType) ==
    CASE destType = "evm" -> "evm"
      [] destType = "starknet" -> "starknet"
      [] OTHER -> "throw"

\* getTransactionStatus: the mintTxData returned with the row, "none" for undefined
getTransactionStatus(tx) ==
    IF Truthy(tx.attestation) /\ Truthy(tx.messageBytes)
    THEN IF getChainConfig(tx.destDomainId) # "undefined"
         THEN buildMintTxData(getChainConfig(tx.destDomainId)) ELSE "none"
    ELSE "none"

\* a response of the status route built from a getTransactionStatus call of this step
StatusResponse(tx, id) ==
    IF last = Unobserved THEN Unobserved
    ELSE IF getTransactionStatus(tx) = "throw"
    THEN [Response("status", "error", id) EXCEPT !.mint = "throw"]
    ELSE [Response("status", tx.status, id) EXCEPT !.mint = getTransactionStatus(tx)]

willAutoMint(destDomainId) == getChainConfig(destDomainId) = "starknet"

autoMintDue_AnyDest(tx) == tx.status = "attested" /\ Truthy(tx.burnTxHash)

\* the auto-mint branch of the status route, evaluated on its current snapshot
autoMintDue(tx) ==
    willAutoMint(tx.destDomainId) /\ tx.status = "attested" /\ Truthy(tx.burnTxHash)

\* getTransactionStatus, then the route's branch on the snapshot
StatusRead(p, id) ==
    /\ UNCHANGED worker
    /\ Free(p)
    /\ IF ~Exists(id)
       THEN /\ last' = Response("status", "NotFound", id)
            /\ UNCHANGED req
       ELSE LET tx == txs[id]
                r == [Idle EXCEPT !.op = "status", !.id = id, !.snapHash = tx.burnTxHash]
            IN IF getTransactionStatus(tx) = "throw"
               THEN /\ last' = StatusResponse(tx, id)
                    /\ UNCHANGED req
               ELSE IF tx.status \notin {"completed", "failed"}
                  /\ tx.status = "burned" /\ Truthy(tx.burnTxHash)
               THEN /\ tx.attestationAttempts < MaxChecks
                    /\ req' = [req EXCEPT ![p] = [r EXCEPT !.pc = "chk_read"]]
                    /\ UNCHANGED last
               ELSE IF tx.status \notin {"completed", "failed"} /\ autoMintDue(tx)
               THEN /\ req' = [req EXCEPT ![p] = [r EXCEPT !.pc = "st_deliver"]]
                    /\ UNCHANGED last
               ELSE /\ last' = StatusResponse(tx, id)
                    /\ UNCHANGED req
    /\ UNCHANGED txs

\* checkAttestation: getTransaction and the early returns
ChkRead(p) ==
    /\ UNCHANGED worker
    /\ req[p].pc = "chk_read"
    /\ LET r == req[p]
           tx == txs[r.id]
       IN IF checkEarlyComplete(tx)
          THEN IF Truthy(tx.attestation)
               THEN /\ req' = [req EXCEPT ![p] =
                                  [r EXCEPT !.pc = "st_reread", !.ret = tx.attestation,
                                            !.via = "stored"]]
                    /\ UNCHANGED last
               ELSE /\ req' = [req EXCEPT ![p] = Idle]
                    /\ last' = Response("status", "burned", r.id)
          ELSE IF ~Truthy(tx.burnTxHash)
          THEN /\ req' = [req EXCEPT ![p] = Idle]
               /\ last' = Response("status", "burned", r.id)
          ELSE /\ req' = [req EXCEPT ![p] =
                             [r EXCEPT !.pc = "chk_write", !.snapHash = tx.burnTxHash]]
               /\ UNCHANGED last
    /\ UNCHANGED txs

\* checkAttestation: the service lookup and the UPDATE it selects
ChkWrite(p) ==
    /\ UNCHANGED worker
    /\ req[p].pc = "chk_write"
    /\ LET r == req[p]
       IN \E resp \in IrisResponses(r.snapHash) :
            LET md == getMessageFromTx(resp)
                ret == checkAttestationReturn(md)
            IN /\ txs' = [txs EXCEPT ![r.id] = checkAttestationUpdate(@, md)]
               /\ IF Truthy(ret)
                  THEN /\ req' = [req EXCEPT ![p] =
                                     [r EXCEPT !.pc = "st_reread", !.ret = ret,
                                               !.via = "service"]]
                       /\ UNCHANGED last
                  ELSE /\ req' = [req EXCEPT ![p] = Idle]
                       /\ last' = Response("status", "burned", r.id)

\* the second getTransactionStatus of the route, then the auto-mint branch
StatusReread(p) ==
    /\ UNCHANGED worker
    /\ req[p].pc = "st_reread"
    /\ LET r == req[p]
           tx == txs[r.id]
       IN IF getTransactionStatus(tx) # "throw" /\ autoMintDue(tx)
          THEN /\ req' = [req EXCEPT ![p] =
                             [r EXCEPT !.pc = "st_deliver", !.ret = NULL, !.via = "none",
                                       !.snapHash = tx.burnTxHash]]
               /\ UNCHANGED last
          ELSE /\ req' = [req EXCEPT ![p] = Idle]
               /\ last' = StatusResponse(tx, r.id)
    /\ UNCHANGED txs

\* checkMessageDelivered and, when delivered, recordMintTx with the sentinel
\* and the route's final read of the row
StatusDeliver(p) ==
    /\ UNCHANGED worker
    /\ req[p].pc = "st_deliver"
    /\ LET r == req[p]
       IN \E resp \in IrisResponses(r.snapHash) :
            /\ txs' = IF checkMessageDelivered(resp, TRUE)
                      THEN [txs EXCEPT ![r.id] = recordMintTx(@, AUTO_MINT)]
                      ELSE txs
            /\ req' = [req EXCEPT ![p] = Idle]
            /\ last' = IF checkMessageDelivered(resp, TRUE)
                       THEN StatusResponse(txs'[r.id], r.id)
                       ELSE Response("status", "attested", r.id)

(* ------------------ POST /api/bridge/[id]/complete --------------------- *)
\* whether the complete route rejects the report because no attestation is stored
attestationNotReady_Never(tx) == FALSE

attestationNotReady(tx) == ~Truthy(tx.attestation)

\* a lookup that matched no row
NoRow == [status |-> "none"]

getTransaction_AnyRow(bridgeId) ==
    IF Len(txs) > 0 THEN txs[1] ELSE NoRow

\* getTransaction: SELECT ... WHERE id = $1
getTransaction(bridgeId) ==
    IF Exists(bridgeId) THEN txs[bridgeId] ELSE NoRow

CompleteRead(p, id, txHash) ==
    /\ UNCHANGED worker
    /\ Free(p)
    /\ LET tx == getTransaction(id)
       IN IF tx = NoRow
          THEN /\ last' = Response("complete", "NotFound", id)
               /\ UNCHANGED req
          ELSE IF attestationNotReady(tx)
          THEN /\ last' = Response("complete", "AttestationNotReady", id)
               /\ UNCHANGED req
          ELSE IF tx.status = "completed"
          THEN /\ last' = Response("complete", "AlreadyCompleted", id)
               /\ UNCHANGED req
          ELSE /\ req' = [req EXCEPT ![p] =
                             [Idle EXCEPT !.pc = "mint_write", !.op = "complete", !.id = id,
                                          !.txHash = txHash]]
               /\ UNCHANGED last
    /\ UNCHANGED txs

CompleteWrite(p) ==
    /\ UNCHANGED worker
    /\ req[p].pc = "mint_write"
    /\ LET r == req[p]
       IN /\ txs' = IF Exists(r.id)
                     THEN [txs EXCEPT ![r.id] = recordMintTx(@, r.txHash)]
                     ELSE txs
          /\ req' = [req EXCEPT ![p] = Idle]
          /\ last' = Response("complete", "ok", r.id)

(* --------------------- GET /api/bridge/activity ------------------------ *)
\* one row of the activity listing: the SELECT, then the auto-mint check
ActivityRead(p, id) ==
    /\ UNCHANGED worker
    /\ Free(p)
    /\ Exists(id)
    /\ txs[id].burnTxHash # NULL
    /\ autoMintDue(txs[id]) /\ ~Truthy(txs[id].mintTxHash)
    /\ req' = [req EXCEPT ![p] =
                  [Idle EXCEPT !.pc = "act_deliver", !.op = "activity", !.id = id,
                               !.snapHash = txs[id].burnTxHash]]
    /\ UNCHANGED <<txs, last>>

\* checkMessageDelivered and, when delivered, the route's own UPDATE
ActivityDeliver(p) ==
    /\ UNCHANGED worker
    /\ req[p].pc = "act_deliver"
    /\ LET r == req[p]
       IN \E resp \in IrisResponses(r.snapHash) :
            /\ txs' = IF checkMessageDelivered(resp, TRUE)
                      THEN [txs EXCEPT ![r.id] = recordMintTx(@, AUTO_MINT)]
                      ELSE txs
            /\ req' = [req EXCEPT ![p] = Idle]
            /\ last' = Response("activity", "ok", r.id)

(* ------------------------ AttestationWorker ---------------------------- *)
TIMEOUT_MESSAGE == <<"Attestation timeout after MAX_ATTEMPTS attempts">>

NoCall == [pc |-> "none", snapHash |-> NULL]

\* the WHERE clause of getPendingAttestations (the 5 second window has elapsed)
isPendingAttestation(tx) ==
    tx.attestationStatus = "pending" /\ tx.status = "burned" /\ tx.burnTxHash # NULL

\* enqueueJob: a tracked id is left alone
enqueueJob(js, id, attempts) ==
    IF id \in DOMAIN js THEN js
    ELSE [i \in DOMAIN js \cup {id} |-> IF i = id THEN [attempts |-> attempts] ELSE js[i]]

deleteJob(js, id) == [i \in DOMAIN js \ {id} |-> js[i]]

\* start(): running is set and the subscription opened
WorkerStart ==
    /\ ~running
    /\ running' = TRUE
    /\ UNCHANGED <<txs, req, last, jobs, wrk, poller, registry, calc>>

\* loadPendingJobs: the reconciliation scan run at start and when no job is tracked
LoadPendingJobs(id) ==
    /\ running
    /\ DOMAIN jobs = {}
    /\ Exists(id)
    /\ isPendingAttestation(txs[id])
    /\ jobs' = enqueueJob(jobs, id, txs[id].attestationAttempts)
    /\ wrk' = IF id \in DOMAIN wrk THEN wrk ELSE (id :> NoCall) @@ wrk
    /\ UNCHANGED <<txs, req, last, running, poller, registry, calc>>

\* processJobs dispatching processJob for a ready job
Dispatch(id) ==
    /\ running
    /\ id \in DOMAIN jobs
    /\ wrk[id].pc = "none"
    /\ txs[id].attestationAttempts < MaxChecks
    /\ wrk' = [wrk EXCEPT ![id] = [NoCall EXCEPT !.pc = "chk_read"]]
    /\ UNCHANGED <<txs, req, last, running, jobs, poller, registry, calc>>

jobsAfterCheck_KeepsJob(js, id, attestation) ==
    IF Truthy(attestation) THEN deleteJob(js, id)
    ELSE IF id \notin DOMAIN js THEN js
    ELSE [js EXCEPT ![id].attempts = @ + 1]

\* processJob after checkAttestation returned attestation
jobsAfterCheck(js, id, attestation) ==
    IF Truthy(attestation) THEN deleteJob(js, id)
    ELSE IF id \notin DOMAIN js THEN js
    ELSE IF js[id].attempts + 1 >= MaxAttempts THEN deleteJob(js, id)
    ELSE [js EXCEPT ![id].attempts = @ + 1]

\* whether processJob goes on to markFailed
exhausted(js, id, attestation) ==
    ~Truthy(attestation) /\ id \in DOMAIN js /\ js[id].attempts + 1 >= MaxAttempts

callAfterCheck(js, id, attestation) ==
    IF exhausted(js, id, attestation) THEN [NoCall EXCEPT !.pc = "mark"] ELSE NoCall

\* processJob: checkAttestation's read and early returns
WorkerChkRead(id) ==
    /\ id \in DOMAIN wrk
    /\ wrk[id].pc = "chk_read"
    /\ LET tx == txs[id]
       IN IF checkEarlyComplete(tx)
          THEN /\ jobs' = jobsAfterCheck(jobs, id, tx.attestation)
               /\ wrk' = [wrk EXCEPT ![id] = callAfterCheck(jobs, id, tx.attestation)]
          ELSE IF ~Truthy(tx.burnTxHash)
          THEN /\ jobs' = jobsAfterCheck(jobs, id, NULL)
               /\ wrk' = [wrk EXCEPT ![id] = callAfterCheck(jobs, id, NULL)]
          ELSE /\ wrk' = [wrk EXCEPT ![id] =
                             [pc |-> "chk_write", snapHash |-> tx.burnTxHash]]
               /\ UNCHANGED jobs
    /\ UNCHANGED <<txs, req, last, running, poller, registry, calc>>

\* processJob: checkAttestation's lookup and UPDATE, then the job bookkeeping
WorkerChkWrite(id) ==
    /\ id \in DOMAIN wrk
    /\ wrk[id].pc = "chk_write"
    /\ \E resp \in IrisResponses(wrk[id].snapHash) :
         LET md == getMessageFromTx(resp)
             ret == checkAttestationReturn(md)
         IN /\ txs' = [txs EXCEPT ![id] = checkAttestationUpdate(@, md)]
            /\ jobs' = jobsAfterCheck(jobs, id, ret)
            /\ wrk' = [wrk EXCEPT ![id] = callAfterCheck(jobs, id, ret)]
    /\ UNCHANGED <<req, last, running, poller, registry, calc>>

\* processJob: markFailed after the job was removed for exhaustion
WorkerMarkFailed(id) ==
    /\ id \in DOMAIN wrk
    /\ wrk[id].pc = "mark"
    /\ txs' = [txs EXCEPT ![id] = markFailed(@, TIMEOUT_MESSAGE)]
    /\ wrk' = [wrk EXCEPT ![id] = NoCall]
    /\ UNCHANGED <<req, last, running, jobs, poller, registry, calc>>

(* ---------------------------- next state ------------------------------- *)
\* the routes a lifecycle run follows: an EVM -> Starknet and a Starknet -> EVM transfer
LifecyclePairs == {<<0, 25>>, <<25, 0>>}

InitiateFirst(p, s, d) == Len(txs) = 0 /\ Initiate(p, s, d)

Next ==
    \/ \E p \in Procs, sd \in LifecyclePairs : InitiateFirst(p, sd[1], sd[2])
    \/ \E p \in Procs, id \in CallerIds, h \in TxHashes, b \in BurnBodies : BurnRead(p, id, h, b)
    \/ \E p \in Procs : BurnWrite(p)
    \/ \E p \in Procs, id \in CallerIds : StatusRead(p, id)
    \/ \E p \in Procs : ChkRead(p)
    \/ \E p \in Procs : ChkWrite(p)
    \/ \E p \in Procs : StatusReread(p)
    \/ \E p \in Procs : StatusDeliver(p)
    \/ \E p \in Procs, id \in CallerIds, h \in MintHashes : CompleteRead(p, id, h)
    \/ \E p \in Procs : CompleteWrite(p)
    \/ \E p \in Procs, id \in CallerIds : ActivityRead(p, id)
    \/ \E p \in Procs : ActivityDeliver(p)
    \/ WorkerStart
    \/ \E id \in CallerIds : LoadPendingJobs(id)
    \/ \E id \in CallerIds : Dispatch(id)
    \/ \E id \in CallerIds : WorkerChkRead(id)
    \/ \E id \in CallerIds : WorkerChkWrite(id)
    \/ \E id \in CallerIds : WorkerMarkFailed(id)

Spec == Init /\ [][Next]_vars

\* the API routes alone, with the responses they return kept in the log
InitObserved ==
    /\ txs = <<>>
    /\ req = [p \in Procs |-> Idle]
    /\ last = NoResponse
    /\ running = FALSE
    /\ jobs = <<>>
    /\ wrk = <<>>
    /\ poller = NoPoller
    /\ registry = LoadedRegistry
    /\ calc = NoCalc

\* the routes an API run follows: the lifecycle pairs and a Starknet -> Solana transfer
ApiPairs == LifecyclePairs \cup {<<25, 5>>}

NextApi ==
    \/ \E p \in Procs, sd \in ApiPairs : InitiateFirst(p, sd[1], sd[2])
    \/ \E p \in Procs, id \in CallerIds, h \in TxHashes, b \in BurnBodies : BurnRead(p, id, h, b)
    \/ \E p \in Procs : BurnWrite(p)
    \/ \E p \in Procs, id \in CallerIds : StatusRead(p, id)
    \/ \E p \in Procs : ChkRead(p)
    \/ \E p \in Procs : ChkWrite(p)
    \/ \E p \in Procs : StatusReread(p)
    \/ \E p \in Procs : StatusDeliver(p)
    \/ \E p \in Procs, id \in CallerIds, h \in MintHashes : CompleteRead(p, id, h)
    \/ \E p \in Procs : CompleteWrite(p)
    \/ \E p \in Procs, id \in CallerIds : ActivityRead(p, id)
    \/ \E p \in Procs : ActivityDeliver(p)

SpecApi == InitObserved /\ [][NextApi]_vars

\* initiate alone, for every pair of domains a caller may send
NextInitiate == \E p \in Procs, s \in DomainInputs, d \in DomainInputs : Initiate(p, s, d)

SpecInitiate == InitObserved /\ [][NextInitiate]_vars

(* --------------------- getPendingAttestations -------------------------- *)
\* LIMIT of the query (100 in service.ts), scaled down
PendingLimit == 2

\* INTERVAL '5 seconds' of the query
RECHECK_SECONDS == 5

\* the columns the query reads, for rows in the states the service leaves them in;
\* lastCheckAge is NOW() - last_attestation_check in seconds
PendingRow(st, ast, hash, never, age) ==
    [status |-> st, attestationStatus |-> ast, burnTxHash |-> hash,
     neverPolled |-> never, lastCheckAge |-> age, createdAt |-> 0]

PendingRowKinds ==
    { PendingRow("initiated", "pending", NULL, TRUE, 0),
      PendingRow("burned", "pending", <<"0x", "b1">>, TRUE, 0),
      PendingRow("burned", "pending", <<"0x", "b1">>, FALSE, RECHECK_SECONDS - 1),
      PendingRow("burned", "pending", <<"0x", "b1">>, FALSE, RECHECK_SECONDS),
      PendingRow("burned", "pending", <<"0x", "b1">>, FALSE, RECHECK_SECONDS + 1),
      PendingRow("burned", "complete", <<"0x", "b1">>, FALSE, RECHECK_SECONDS + 1),
      PendingRow("attested", "complete", <<"0x", "b1">>, FALSE, RECHECK_SECONDS + 1),
      PendingRow("failed", "pending", <<"0x", "b1">>, FALSE, RECHECK_SECONDS + 1) }

pendingWhere_Inclusive(row) ==
    /\ row.attestationStatus = "pending"
    /\ row.status = "burned"
    /\ row.burnTxHash # NULL
    /\ (row.neverPolled \/ row.lastCheckAge >= RECHECK_SECONDS)

\* the WHERE clause of getPendingAttestations
pendingWhere(row) ==
    /\ row.attestationStatus = "pending"
    /\ row.status = "burned"
    /\ row.burnTxHash # NULL
    /\ (row.neverPolled \/ row.lastCheckAge > RECHECK_SECONDS)

\* ORDER BY created_at ASC LIMIT n over the ids in S
RECURSIVE oldestFirst(_, _, _)
oldestFirst(table, S, n) ==
    IF S = {} \/ n = 0 THEN <<>>
    ELSE LET first == CHOOSE i \in S : \A j \in S : table[i].createdAt <= table[j].createdAt
         IN <<first>> \o oldestFirst(table, S \ {first}, n - 1)

\* getPendingAttestations: the ids of the rows returned, in order
getPendingAttestations(table) ==
    oldestFirst(table, {i \in DOMAIN table : pendingWhere(table[i])}, PendingLimit)

\* a table of up to PendingLimit + 1 rows created at distinct times
InitPending ==
    /\ \E n \in 1..(PendingLimit + 1) :
         \E kinds \in [1..n -> PendingRowKinds], order \in Permutations(1..n) :
            txs = [i \in 1..n |-> [kinds[i] EXCEPT !.createdAt = order[i]]]
    /\ req = [p \in Procs |-> Idle]
    /\ last = NoResponse
    /\ running = FALSE
    /\ jobs = <<>>
    /\ wrk = <<>>
    /\ poller = NoPoller
    /\ registry = LoadedRegistry
    /\ calc = NoCalc

\* one call of getPendingAttestations, its result kept in the log
QueryPending ==
    /\ last' = [NoResponse EXCEPT !.op = "getPendingAttestations",
                                  !.result = getPendingAttestations(txs)]
    /\ UNCHANGED <<txs, req, running, jobs, wrk, poller, registry, calc>>

NextPending == QueryPending

SpecPending == InitPending /\ [][NextPending]_vars

(* ------------- AttestationWorker: timer, clock and notifications ------- *)
\* MAX_CONCURRENT of processJobs, scaled down
BatchSize == 1
\* the clock stops here; times are counted in ticks of TickMs milliseconds
MaxTime == 6
\* job objects created, processJobs runs started and scans in flight in one run
MaxObjs == 3
MaxBatches == 3
MaxScans == 1
\* the rows the poller's store starts with
PollerRows == 2

BASE_DELAY == 2000
MAX_DELAY == 60000
IDLE_CHECK_INTERVAL == 30000
TickMs == 6000

Min2(a, b) == IF a <= b THEN a ELSE b
Max2(a, b) == IF a >= b THEN a ELSE b

RECURSIVE Pow(_, _)
Pow(b, n) == IF n = 0 THEN 1 ELSE b * Pow(b, n - 1)

\* milliseconds rounded up to whole ticks
Ticks(ms) == (ms + TickMs - 1) \div TickMs

\* calculateBackoff: min(BASE_DELAY * 1.5^attempts, MAX_DELAY) plus a jitter
\* of 0 to 30 percent, floored; the two ends of the jitter range
exponentialDelay(attempts) ==
    Min2((BASE_DELAY * Pow(3, attempts)) \div Pow(2, attempts), MAX_DELAY)

calculateBackoff(attempts) ==
    LET e == exponentialDelay(attempts)
    IN {Ticks(e), Ticks(e + (3 * e) \div 10)}

\* the job objects the Map holds
Tracked(pl) == {pl.jobs[i] : i \in DOMAIN pl.jobs}

\* getNextJob: the tracked job with the earliest nextRetry (0 when none)
getNextJob(pl) ==
    IF Tracked(pl) = {} THEN 0
    ELSE CHOOSE o \in Tracked(pl) :
           \A q \in Tracked(pl) :
              \/ pl.objs[o].nextRetry < pl.objs[q].nextRetry
              \/ (pl.objs[o].nextRetry = pl.objs[q].nextRetry /\ o <= q)

scheduleProcessing_NoIdle(worker0) ==
    LET armed(pl) ==
          IF ~pl.running THEN pl
          ELSE IF getNextJob(pl) = 0 THEN [pl EXCEPT !.timer = NoTimer]
          ELSE [pl EXCEPT !.timer = [kind |-> "process",
                                     at |-> Max2(pl.now, pl.objs[getNextJob(pl)].nextRetry)]]
    IN CHOOSE r \in {armed(pl) : pl \in {worker0}} : TRUE

\* scheduleProcessing: nothing when stopped; otherwise the timer is replaced
\* by the idle timer when no job is tracked, else by one due at the earliest
\* nextRetry (at once when that is past)
\* (the worker state handed in is evaluated once, then the method applied)
scheduleProcessing(worker0) ==
    LET armed(pl) ==
          IF ~pl.running THEN pl
          ELSE IF getNextJob(pl) = 0
          THEN [pl EXCEPT !.timer = [kind |-> "idle",
                                     at |-> pl.now + Ticks(IDLE_CHECK_INTERVAL)]]
          ELSE [pl EXCEPT !.timer = [kind |-> "process",
                                     at |-> Max2(pl.now, pl.objs[getNextJob(pl)].nextRetry)]]
    IN CHOOSE r \in {armed(pl) : pl \in {worker0}} : TRUE

enqueueJobAt_Overwrites(worker0, id, attempts, delay) ==
    LET pl == worker0 IN
    scheduleProcessing(
        [pl EXCEPT !.objs = Append(@, [id |-> id, attempts |-> attempts,
                                       nextRetry |-> pl.now + delay]),
                   !.jobs = (id :> Len(pl.objs) + 1) @@ @])

enqueueJobAt_NoSchedule(worker0, id, attempts, delay) ==
    LET pl == worker0 IN
    IF id \in DOMAIN pl.jobs THEN [pl EXCEPT !.deduped = TRUE]
    ELSE [pl EXCEPT !.objs = Append(@, [id |-> id, attempts |-> attempts,
                                        nextRetry |-> pl.now + delay]),
                    !.jobs = (id :> Len(pl.objs) + 1) @@ @]

\* enqueueJob with the timer: a tracked id returns at once; otherwise a new
\* job object is stored with nextRetry = now + backoff, then scheduleProcessing
enqueueJobAt(worker0, id, attempts, delay) ==
    LET stored(pl) ==
          IF id \in DOMAIN pl.jobs THEN [pl EXCEPT !.deduped = TRUE]
          ELSE scheduleProcessing(
                  [pl EXCEPT !.objs = Append(@, [id |-> id, attempts |-> attempts,
                                                 nextRetry |-> pl.now + delay]),
                             !.jobs = (id :> Len(pl.objs) + 1) @@ @])
    IN CHOOSE r \in {stored(pl) : pl \in {worker0}} : TRUE

\* the ids a call may enqueue while object slots remain
CanEnqueue(pl, id) == id \in DOMAIN pl.jobs \/ Len(pl.objs) < MaxObjs

\* jobs.delete(id)
forget(pl, id) == [pl EXCEPT !.jobs = [i \in DOMAIN pl.jobs \ {id} |-> pl.jobs[i]]]

notifyAttestationNeeded_AnyStatus(row, id) ==
    IF row.messageHash # NULL
    THEN {[id |-> id, messageHash |-> row.messageHash,
           attempts |-> row.attestationAttempts]}
    ELSE {}

\* the trigger of migration 0003: a written row that is burned, has a message
\* hash and a pending attestation is announced with its id, message hash and
\* attempt count
notifyAttestationNeeded(row, id) ==
    IF row.status = "burned" /\ row.messageHash # NULL /\ row.attestationStatus = "pending"
    THEN {[id |-> id, messageHash |-> row.messageHash,
           attempts |-> row.attestationAttempts]}
    ELSE {}

\* NOTIFY reaches the poller only while its LISTEN is open
announce(pl, row, id) ==
    IF pl.listening THEN [pl EXCEPT !.notif = @ \cup notifyAttestationNeeded(row, id)]
    ELSE pl

\* store failures (a rejected query) injected in one run
MaxFaults == 1

\* what the poller's own steps leave alone besides the store
apart == <<req, last, running, jobs, wrk, registry, calc>>

\* a job object that neither the Map nor a call in flight refers to is
\* unreachable: its fields are cleared
collect(worker0) ==
    LET cleared(pl) ==
          [pl EXCEPT !.objs = [o \in DOMAIN pl.objs |->
              IF o \in Tracked(pl) \/ \E d \in pl.calls : d.obj = o THEN pl.objs[o]
              ELSE [id |-> pl.objs[o].id, attempts |-> 0, nextRetry |-> 0]]]
    IN CHOOSE r \in {cleared(pl) : pl \in {worker0}} : TRUE

endCall_NoReschedule(worker0, c) == collect([worker0 EXCEPT !.calls = @ \ {c}])

\* a processJob call returns; Promise.allSettled of its processJobs run
\* resolves with the last call of the batch, and scheduleProcessing follows
endCall(worker0, c) ==
    LET settled(rest) ==
          IF \E d \in rest.calls : d.batch = c.batch THEN rest
          ELSE scheduleProcessing(rest)
    IN CHOOSE r \in {settled(rest) : rest \in {collect([worker0 EXCEPT !.calls = @ \ {c}])}} : TRUE

afterCheck_FailFast(pl, c, attestation, delay) ==
    LET o == c.obj
        id == pl.objs[o].id
        counted == [pl EXCEPT !.objs[o].attempts = @ + 1]
    IN IF Truthy(attestation) THEN endCall(forget(pl, id), c)
       ELSE [forget(counted, id) EXCEPT !.calls = (@ \ {c}) \cup {[c EXCEPT !.pc = "mark"]}]

\* processJob once checkAttestation has returned: an attestation removes the
\* job; otherwise the job object counts the attempt and is either removed
\* (then markFailed follows) or given a new nextRetry
afterCheck(pl, c, attestation, delay) ==
    LET o == c.obj
        id == pl.objs[o].id
        n == pl.objs[o].attempts + 1
        counted == [pl EXCEPT !.objs[o].attempts = n]
    IN IF Truthy(attestation) THEN endCall(forget(pl, id), c)
       ELSE IF n >= MaxAttempts
       THEN [forget(counted, id) EXCEPT !.calls = (@ \ {c}) \cup {[c EXCEPT !.pc = "mark"]}]
       ELSE endCall([counted EXCEPT !.objs[o].nextRetry = pl.now + delay], c)

\* processJob's catch branch: the attempt is counted and a retry scheduled,
\* without a look at MAX_ATTEMPTS
afterThrow(pl, c, delay) ==
    LET o == c.obj
    IN endCall([pl EXCEPT !.objs[o].attempts = @ + 1,
                          !.objs[o].nextRetry = pl.now + delay,
                          !.faults = @ + 1], c)

\* the backoff drawn for the attempt count the job object will hold
NextDelays(pl, c) == calculateBackoff(pl.objs[c.obj].attempts + 1)

\* start(): running is set, the LISTEN opened and loadPendingJobs begun
PollerStart ==
    /\ ~poller.running
    /\ poller.scans < MaxScans
    /\ poller' = [poller EXCEPT !.running = TRUE, !.listening = TRUE, !.scans = @ + 1]
    /\ UNCHANGED <<txs, apart>>

\* the rows getPendingAttestations returns, oldest first
pendingIds == {id \in DOMAIN txs : isPendingAttestation(txs[id])}

RECURSIVE enqueueAll(_, _, _)
enqueueAll(pl, ids, delay) ==
    IF ids = {} THEN pl
    ELSE LET id == CHOOSE i \in ids : \A j \in ids : i <= j
         IN enqueueAll(enqueueJobAt(pl, id, txs[id].attestationAttempts, delay[id]),
                       ids \ {id}, delay)

\* the backoff delays drawn for the rows a scan returns
ScanDelays ==
    {delay \in [pendingIds -> UNION {calculateBackoff(txs[i].attestationAttempts) :
                                     i \in pendingIds}] :
        \A i \in pendingIds : delay[i] \in calculateBackoff(txs[i].attestationAttempts)}

\* loadPendingJobs returning (at start or from the idle timer): every row
\* found is offered to enqueueJob, then scheduleProcessing runs
ScanLoaded ==
    /\ poller.scans > 0
    /\ Len(poller.objs) + Cardinality(pendingIds \ DOMAIN poller.jobs) <= MaxObjs
    /\ poller' \in {scheduleProcessing(
                       enqueueAll([poller EXCEPT !.scans = @ - 1], pendingIds, delay)) :
                    delay \in ScanDelays}
    /\ UNCHANGED <<txs, apart>>

\* the notification handler: enqueueJob(data.id, data.message_hash, data.attempts || 0)
OnNotification(n) ==
    /\ n \in poller.notif
    /\ CanEnqueue(poller, n.id)
    /\ \E delay \in calculateBackoff(n.attempts) :
         poller' = enqueueJobAt([poller EXCEPT !.notif = @ \ {n}], n.id, n.attempts, delay)
    /\ UNCHANGED <<txs, apart>>

\* a burned row as POST /burn leaves it when the caller sent the message bytes
BurnedRow == recordBurnTx(NewRow(0, 25), <<"0x", "b1">>, <<"aa">>, <<"7">>, NoData)

\* a burn report accepted by POST /api/bridge/[id]/burn while the poller runs
ApiBurn(id) ==
    /\ Exists(id)
    /\ txs[id].status = "initiated"
    /\ txs' = [txs EXCEPT ![id] = BurnedRow]
    /\ poller' = announce(poller, txs'[id], id)
    /\ UNCHANGED apart

\* time passes up to the next moment the timer or a job is due
Advance ==
    /\ \E t \in {poller.timer.at} \cup {poller.objs[o].nextRetry : o \in Tracked(poller)} :
         /\ t > poller.now
         /\ t <= MaxTime
         /\ poller' = [poller EXCEPT !.now = t]
    /\ UNCHANGED <<txs, apart>>

\* the jobs processJobs takes: nextRetry <= now, the first BatchSize in Map order
readyJobs(pl) ==
    LET due == {o \in Tracked(pl) : pl.objs[o].nextRetry <= pl.now}
    IN {o \in due : Cardinality({q \in due : q < o}) < BatchSize}

\* the timer fires processJobs: a processJob call is started for each ready job
ProcessJobs ==
    /\ poller.timer.kind = "process"
    /\ poller.timer.at <= poller.now
    /\ poller.nbatch < MaxBatches
    /\ LET fired == [poller EXCEPT !.timer = NoTimer]
           ready == readyJobs(fired)
       IN poller' = IF ready = {} THEN scheduleProcessing(fired)
                    ELSE [fired EXCEPT !.nbatch = @ + 1,
                                       !.calls = @ \cup {[batch |-> fired.nbatch + 1, obj |-> o,
                                                          pc |-> "chk_read", snapHash |-> NULL] :
                                                         o \in ready}]
    /\ UNCHANGED <<txs, apart>>

\* the idle timer fires: loadPendingJobs begins
IdleScan ==
    /\ poller.timer.kind = "idle"
    /\ poller.timer.at <= poller.now
    /\ poller.scans < MaxScans
    /\ poller' = [poller EXCEPT !.timer = NoTimer, !.scans = @ + 1]
    /\ UNCHANGED <<txs, apart>>

\* processJob: checkAttestation's read of the row and its early returns
JobChkRead(c) ==
    /\ c \in poller.calls
    /\ c.pc = "chk_read"
    /\ LET tx == txs[poller.objs[c.obj].id]
       IN \E delay \in NextDelays(poller, c) :
            poller' = IF checkEarlyComplete(tx) THEN afterCheck(poller, c, tx.attestation, delay)
                      ELSE IF ~Truthy(tx.burnTxHash) THEN afterCheck(poller, c, NULL, delay)
                      ELSE [poller EXCEPT !.calls = (@ \ {c}) \cup
                               {[c EXCEPT !.pc = "chk_write", !.snapHash = tx.burnTxHash]}]
    /\ UNCHANGED <<txs, apart>>

\* processJob: checkAttestation rejects because its read of the row failed
JobChkThrow(c) ==
    /\ c \in poller.calls
    /\ c.pc = "chk_read"
    /\ poller.faults < MaxFaults
    /\ \E delay \in NextDelays(poller, c) : poller' = afterThrow(poller, c, delay)
    /\ UNCHANGED <<txs, apart>>

\* processJob: checkAttestation's lookup and UPDATE, the trigger's
\* notification, then the job bookkeeping
JobChkWrite(c) ==
    /\ c \in poller.calls
    /\ c.pc = "chk_write"
    /\ LET id == poller.objs[c.obj].id
       IN \E resp \in IrisResponses(c.snapHash), delay \in NextDelays(poller, c) :
            LET md == getMessageFromTx(resp)
            IN /\ txs' = [txs EXCEPT ![id] = checkAttestationUpdate(@, md)]
               /\ poller' = afterCheck(IF txs'[id] = txs[id] THEN poller
                                       ELSE announce(poller, txs'[id], id),
                                       c, checkAttestationReturn(md), delay)
    /\ UNCHANGED apart

\* processJob: markFailed after the job was removed for exhaustion
JobMarkFailed(c) ==
    /\ c \in poller.calls
    /\ c.pc = "mark"
    /\ txs' = [txs EXCEPT ![poller.objs[c.obj].id] = markFailed(@, TIMEOUT_MESSAGE)]
    /\ poller' = endCall(poller, c)
    /\ UNCHANGED apart

\* every call a run can hold
PollerCalls ==
    [batch : 1..MaxBatches, obj : 1..MaxObjs, pc : {"chk_read", "chk_write", "mark"},
     snapHash : TxHashes \cup {NULL}]

\* the store the poller starts on: the first row burned, the others burned or
\* only initiated
InitPoller ==
    /\ txs \in [1..PollerRows -> {BurnedRow, NewRow(0, 25)}]
    /\ txs[1] = BurnedRow
    /\ req = [p \in Procs |-> Idle]
    /\ last = Unobserved
    /\ running = FALSE
    /\ jobs = <<>>
    /\ wrk = <<>>
    /\ poller = NoPoller
    /\ registry = LoadedRegistry
    /\ calc = NoCalc

NextPoller ==
    \/ PollerStart
    \/ ScanLoaded
    \/ \E n \in poller.notif : OnNotification(n)
    \/ \E id \in 1..PollerRows : ApiBurn(id)
    \/ Advance
    \/ ProcessJobs
    \/ IdleScan
    \/ \E c \in PollerCalls : JobChkRead(c)
    \/ \E c \in PollerCalls : JobChkThrow(c)
    \/ \E c \in PollerCalls : JobChkWrite(c)
    \/ \E c \in PollerCalls : JobMarkFailed(c)

SpecPoller == InitPoller /\ [][NextPoller]_vars

(* --------------------------- chain registry ----------------------------- *)
\* the domains whose supported_chains rows an operator enables or disables
RegistryDomains == {0, 5, 25}

\* the contents supported_chains can have (enabled rows): domain -> chain_type
RegistryTables ==
    {[d \in D |-> chainConfigCache[d]] : D \in SUBSET RegistryDomains}

\* chainConfigCache.get(domainId) on a given cache
getChainConfigIn(cache, d) == IF d \in DOMAIN cache THEN cache[d] ELSE "undefined"

installCache_InPlace(cache, rows) == rows @@ cache

\* loadChainConfig after its query: a new Map is filled from the rows and
\* assigned to chainConfigCache; the old Map is not touched
installCache(cache, rows) == [d \in DOMAIN rows |-> rows[d]]

\* the module as first imported: an empty cache, no reload running
InitRegistry ==
    /\ txs = <<>>
    /\ req = [p \in Procs |-> Idle]
    /\ last = Unobserved
    /\ running = FALSE
    /\ jobs = <<>>
    /\ wrk = <<>>
    /\ poller = NoPoller
    /\ registry \in {[LoadedRegistry EXCEPT !.table = t, !.cache = <<>>] : t \in RegistryTables}
    /\ calc = NoCalc

\* an operator changes the enabled rows of supported_chains
TableChange(t) ==
    /\ t # registry.table
    /\ registry' = [registry EXCEPT !.table = t]
    /\ UNCHANGED <<txs, req, last, running, jobs, wrk, poller, calc>>

\* loadChainConfig up to the result of its SELECT
LoadQuery(p) ==
    /\ registry.loads[p].pc = "idle"
    /\ registry' = [registry EXCEPT !.loads[p] = [pc |-> "fetched", rows |-> registry.table]]
    /\ UNCHANGED <<txs, req, last, running, jobs, wrk, poller, calc>>

\* loadChainConfig after the await: build newCache, assign it
LoadInstall(p) ==
    /\ registry.loads[p].pc = "fetched"
    /\ registry' = [registry EXCEPT
                       !.cache = installCache(registry.cache, registry.loads[p].rows),
                       !.loads[p] = NoLoad]
    /\ UNCHANGED <<txs, req, last, running, jobs, wrk, poller, calc>>

\* getChainConfig(domainId), called at any moment
Lookup(d) ==
    /\ registry' = [registry EXCEPT
                       !.seen = [domainId |-> d, type |-> getChainConfigIn(registry.cache, d)]]
    /\ UNCHANGED <<txs, req, last, running, jobs, wrk, poller, calc>>

NextRegistry ==
    \/ \E t \in RegistryTables : TableChange(t)
    \/ \E p \in Procs : LoadQuery(p)
    \/ \E p \in Procs : LoadInstall(p)
    \/ \E d \in DomainInputs : Lookup(d)

SpecRegistry == InitRegistry /\ [][NextRegistry]_vars

(* ----------------------- burn payload of initiate ---------------------- *)
\* the values a request body can hold in isFastTransfer
FastInputs == {"true", "false", "undefined", "null"}

\* the amounts (in USDC units) a caller asks to move
AmountInputs == {1, 1000000}

FAST_THRESHOLD == 1000
STANDARD_THRESHOLD == 2000
FAST_MAX_FEE == 10000

\* isFastTransfer !== false, in the route and again in initiateBridge
isFast(isFastTransfer) == isFastTransfer # "false"

\* the arguments a family's burn builder encodes, as name/value pairs:
\* depositForBurn (EVM) and deposit_for_burn (Starknet) take maxFee and
\* minFinalityThreshold; the Solana instruction data is discriminator,
\* amount, destination domain and recipient only
burnArgs(family, amount, destinationDomain, minFinalityThreshold, maxFee) ==
    IF family \in {"evm", "starknet"}
    THEN {<<"amount", amount>>, <<"destinationDomain", destinationDomain>>,
          <<"maxFee", maxFee>>, <<"minFinalityThreshold", minFinalityThreshold>>}
    ELSE {<<"amount", amount>>, <<"destinationDomain", destinationDomain>>}

\* what initiateBridge returns or throws for a request
initiateBridge(s, d, amount, isFastTransfer) ==
    LET out == initiateOutcome(s, d)
        minFinalityThreshold == IF isFast(isFastTransfer) THEN FAST_THRESHOLD ELSE STANDARD_THRESHOLD
        maxFee == IF isFast(isFastTransfer) THEN FAST_MAX_FEE ELSE 0
        family == buildBurnTxData(getChainConfig(s), getChainConfig(d))
    IN IF out # "ok" THEN [result |-> out, family |-> "none", args |-> {}]
       ELSE [result |-> "ok", family |-> family,
             args |-> burnArgs(family, amount, d, minFinalityThreshold, maxFee)]

\* one initiateBridge call, seen for its payload alone
InitiatePayload(s, d, amount, isFastTransfer) ==
    /\ calc' = [fn |-> "initiateBridge", arg |-> <<s, d, amount, isFastTransfer>>,
                out |-> initiateBridge(s, d, amount, isFastTransfer)]
    /\ UNCHANGED <<txs, req, last, running, jobs, wrk, poller, registry>>

NextPayload ==
    \E s \in DomainInputs, d \in DomainInputs, a \in AmountInputs, f \in FastInputs :
        InitiatePayload(s, d, a, f)

SpecPayload == Init /\ [][NextPayload]_vars

(* --------------------------- payload builders --------------------------- *)
\* the domains with a supported_chains row, and one without
RegisteredDomains == DOMAIN chainConfigCache
BuilderDomains == RegisteredDomains \cup {9}

\* buildBurnTxData(sourceConfig, params) for the source's row and a destination domain
BuildBurn(s, d, amount) ==
    /\ calc' = [fn |-> "buildBurnTxData", arg |-> <<s, d, amount>>,
                out |-> buildBurnTxData(getChainConfig(s), getChainConfig(d))]
    /\ UNCHANGED <<txs, req, last, running, jobs, wrk, poller, registry>>

\* buildMintTxData(destConfig, messageBytes, attestation) for the destination's row
BuildMint(d, txHash) ==
    /\ calc' = [fn |-> "buildMintTxData", arg |-> <<d, IrisMessage(txHash), IrisAttestation(txHash)>>,
                out |-> buildMintTxData(getChainConfig(d))]
    /\ UNCHANGED <<txs, req, last, running, jobs, wrk, poller, registry>>

NextBuilder ==
    \/ \E s \in RegisteredDomains, d \in BuilderDomains, a \in AmountInputs : BuildBurn(s, d, a)
    \/ \E d \in RegisteredDomains, h \in TxHashes : BuildMint(d, h)

SpecBuilder == Init /\ [][NextBuilder]_vars

(* ------------------------- calculateBackoff ---------------------------- *)
\* the attempt counts a backoff is computed for
MaxBackoffAttempts == 12

\* Math.random() is one of the values k / JitterSteps, k < JitterSteps
JitterSteps == 10

\* Math.min(BASE_DELAY * Math.pow(1.5, attempts), MAX_DELAY) as the exact
\* fraction num / den of milliseconds (1.5^n is exact in a double up to the cap)
RECURSIVE exponentialDelayExact(_)
exponentialDelayExact(attempts) ==
    IF attempts = 0 THEN [num |-> BASE_DELAY, den |-> 1]
    ELSE LET e == exponentialDelayExact(attempts - 1)
         IN IF 3 * e.num >= MAX_DELAY * 2 * e.den
            THEN [num |-> MAX_DELAY, den |-> 1]
            ELSE [num |-> 3 * e.num, den |-> 2 * e.den]

calculateBackoffMs_WideJitter(attempts, k) ==
    LET e == exponentialDelayExact(attempts)
    IN (e.num * (10 * JitterSteps + 5 * k)) \div (e.den * 10 * JitterSteps)

\* Math.floor(exponentialDelay + Math.random() * 0.3 * exponentialDelay)
calculateBackoffMs(attempts, k) ==
    LET e == exponentialDelayExact(attempts)
    IN (e.num * (10 * JitterSteps + 3 * k)) \div (e.den * 10 * JitterSteps)

\* one calculateBackoff call
Backoff(attempts, k) ==
    /\ calc' = [fn |-> "calculateBackoff", arg |-> <<attempts, k>>,
                out |-> calculateBackoffMs(attempts, k)]
    /\ UNCHANGED <<txs, req, last, running, jobs, wrk, poller, registry>>

NextBackoff == \E n \in 0..MaxBackoffAttempts, k \in 0..(JitterSteps - 1) : Backoff(n, k)

SpecBackoff == Init /\ [][NextBackoff]_vars

(* ------------------------- address translation -------------------------- *)
\* widths in hex characters, scaled down: half a word stands for 128 bits, a
\* word for 32 bytes, an EVM address (wider than half a word) for 20 bytes
HalfChars == 2
WordChars == 2 * HalfChars
EvmChars == HalfChars + 1

\* the hex digits an address is written with, in either case
HexChars == {"0", "1", "a", "F"}

hexVal(c) ==
    CASE c = "0" -> 0 [] c = "1" -> 1
      [] c \in {"a", "A"} -> 10 [] c \in {"f", "F"} -> 15

\* String.prototype.toLowerCase
toLowerCase(s) ==
    [i \in DOMAIN s |-> IF s[i] = "A" THEN "a" ELSE IF s[i] = "F" THEN "f" ELSE s[i]]

\* s.replace('0x', ''): the first occurrence of "0x" is removed
replace0x(s) ==
    LET at == {i \in 1..(Len(s) - 1) : s[i] = "0" /\ s[i + 1] = "x"}
    IN IF at = {} THEN s
       ELSE LET i == CHOOSE j \in at : \A k \in at : j <= k
            IN SubSeq(s, 1, i - 1) \o SubSeq(s, i + 2, Len(s))

\* s.padStart(n, '0')
padStart(s, n) == IF Len(s) >= n THEN s ELSE [i \in 1..(n - Len(s)) |-> "0"] \o s

\* BigInt('0x' + s)
RECURSIVE parseHex(_)
parseHex(s) ==
    IF s = <<>> THEN 0
    ELSE 16 * parseHex(SubSeq(s, 1, Len(s) - 1)) + hexVal(s[Len(s)])

\* cairo.uint256(value): the low and high halves of the word
uint256(v) == [low |-> v % Pow(16, HalfChars), high |-> v \div Pow(16, HalfChars)]

\* BigInt.prototype.toString(): the decimal digits
RECURSIVE toDecimal(_)
toDecimal(v) == IF v < 10 THEN <<v>> ELSE toDecimal(v \div 10) \o <<v % 10>>

\* Buffer.from(s, 'hex'): one byte for each pair of hex characters
bufferFromHex(s) ==
    [i \in 1..(Len(s) \div 2) |-> 16 * hexVal(s[2 * i - 1]) + hexVal(s[2 * i])]

addressToBytes32(address) ==
    <<"0", "x">> \o padStart(replace0x(toLowerCase(address)), WordChars)

starknetAddressToBytes32(address) ==
    <<"0", "x">> \o padStart(replace0x(toLowerCase(address)), WordChars)

evmAddressToU256_LowOnly(address) ==
    LET u256 == uint256(parseHex(replace0x(toLowerCase(address))))
    IN <<toDecimal(u256.low), toDecimal(0)>>

evmAddressToU256(address) ==
    LET u256 == uint256(parseHex(replace0x(toLowerCase(address))))
    IN <<toDecimal(u256.low), toDecimal(u256.high)>>

solanaAddressToU256(address) ==
    LET cleanHex == padStart(replace0x(address), WordChars)
        high == parseHex(SubSeq(cleanHex, 1, HalfChars))
        low == parseHex(SubSeq(cleanHex, HalfChars + 1, Len(cleanHex)))
    IN <<toDecimal(low), toDecimal(high)>>

starknetAddressToBuffer(address) ==
    bufferFromHex(padStart(replace0x(address), WordChars))

evmAddressToBuffer(address) ==
    bufferFromHex(padStart(replace0x(address), WordChars))

\* the ways an address of up to n hex characters is written: with or without
\* the 0x prefix, leading zeros dropped or kept
Written(lens) ==
    {pre \o body : pre \in {<<>>, <<"0", "x">>},
                   body \in UNION {[1..n -> HexChars] : n \in lens}}

EvmAddresses == Written({EvmChars})
WordAddresses == Written(1..WordChars)

\* the translation named fn applied to an address
translate(fn, address) ==
    CASE fn = "addressToBytes32" -> addressToBytes32(address)
      [] fn = "starknetAddressToBytes32" -> starknetAddressToBytes32(address)
      [] fn = "evmAddressToU256" -> evmAddressToU256(address)
      [] fn = "solanaAddressToU256" -> solanaAddressToU256(address)
      [] fn = "starknetAddressToBuffer" -> starknetAddressToBuffer(address)
      [] fn = "evmAddressToBuffer" -> evmAddressToBuffer(address)

\* a translation about to be called with an address of its family
AddressCalls ==
    {[fn |-> f, arg |-> a, out |-> <<>>, pc |-> "call"] :
        f \in {"addressToBytes32", "evmAddressToU256", "evmAddressToBuffer"}, a \in EvmAddresses}
    \cup
    {[fn |-> f, arg |-> a, out |-> <<>>, pc |-> "call"] :
        f \in {"starknetAddressToBytes32", "solanaAddressToU256", "starknetAddressToBuffer"},
        a \in WordAddresses}

InitAddress ==
    /\ txs = <<>>
    /\ req = [p \in Procs |-> Idle]
    /\ last = Unobserved
    /\ running = FALSE
    /\ jobs = <<>>
    /\ wrk = <<>>
    /\ poller = NoPoller
    /\ registry = LoadedRegistry
    /\ calc \in AddressCalls

\* the translation runs and returns the wide word
Translate ==
    /\ calc.pc = "call"
    /\ calc' = [calc EXCEPT !.out = translate(calc.fn, calc.arg), !.pc = "done"]
    /\ UNCHANGED <<txs, req, last, running, jobs, wrk, poller, registry>>

NextAddress == Translate

SpecAddress == InitAddress /\ [][NextAddress]_vars

(* ------------------------- stop() and reconnect() ----------------------- *)
\* stop() up to its await: running is cleared, the timer cancelled; with a
\* client held the UNLISTEN query is sent, without one stop() has finished
PollerStop ==
    /\ poller.running
    /\ poller.stop # "unlisten"
    /\ poller' = [poller EXCEPT !.running = FALSE, !.timer = NoTimer,
                                !.stop = IF poller.listening THEN "unlisten" ELSE "done"]
    /\ UNCHANGED <<txs, apart>>

\* stop() after the UNLISTEN query: the client is released and forgotten
PollerStopped ==
    /\ poller.stop = "unlisten"
    /\ poller' = [poller EXCEPT !.listening = FALSE, !.notif = {}, !.stop = "done"]
    /\ UNCHANGED <<txs, apart>>

\* the client's error event while running: reconnect() releases the client
\* and begins its 5 second wait
ConnectionError ==
    /\ poller.listening
    /\ poller.running
    /\ poller.reconnect = "none"
    /\ poller' = [poller EXCEPT !.listening = FALSE, !.notif = {}, !.reconnect = "wait"]
    /\ UNCHANGED <<txs, apart>>

\* reconnect() after the wait: it goes on to pool.connect() only if running
ReconnectWake ==
    /\ poller.reconnect = "wait"
    /\ poller' = [poller EXCEPT !.reconnect = IF poller.running THEN "connect" ELSE "none"]
    /\ UNCHANGED <<txs, apart>>

\* pool.connect() and LISTEN have returned: the client is kept and subscribed
ReconnectConnected ==
    /\ poller.reconnect = "connect"
    /\ poller' = [poller EXCEPT !.listening = TRUE, !.reconnect = "none"]
    /\ UNCHANGED <<txs, apart>>

\* pool.connect() or LISTEN has thrown: reconnect() is called again
ReconnectFailed ==
    /\ poller.reconnect = "connect"
    /\ poller' = [poller EXCEPT !.reconnect = IF poller.running THEN "wait" ELSE "none"]
    /\ UNCHANGED <<txs, apart>>

NextStop ==
    \/ PollerStart
    \/ ScanLoaded
    \/ \E n \in poller.notif : OnNotification(n)
    \/ Advance
    \/ ProcessJobs
    \/ IdleScan
    \/ \E c \in PollerCalls : JobChkRead(c)
    \/ \E c \in PollerCalls : JobChkWrite(c)
    \/ \E c \in PollerCalls : JobMarkFailed(c)
    \/ \E c \in PollerCalls : JobChkThrow(c)
    \/ PollerStop
    \/ PollerStopped
    \/ ConnectionError
    \/ ReconnectWake
    \/ ReconnectConnected
    \/ ReconnectFailed

\* one burned transfer in the store, the worker as constructed
InitStop ==
    /\ InitPoller
    /\ \A id \in DOMAIN txs : id # 1 => txs[id] = NewRow(0, 25)

SpecStop == InitStop /\ [][NextStop]_vars

(* ------------------------------ claims --------------------------------- *)
StatusRank(st) ==
    CASE st = "initiated" -> 1
      [] st = "burned" -> 2
      [] st = "attested" -> 3
      [] st = "minting" -> 4
      [] st = "completed" -> 5
      [] OTHER -> 0

\* C1: in every step the status of every transfer stays the same, moves forward
\* along initiated -> burned -> attested -> minting -> completed, or becomes
\* failed; it never moves backwards and never leaves failed.
C1_StatusNeverRegresses ==
    [][\A id \in DOMAIN txs :
          LET a == txs[id].status
              b == txs'[id].status
          IN \/ a = b
             \/ b = "failed"
             \/ a # "failed" /\ StatusRank(a) < StatusRank(b)]_vars

\* C2: once the status of a transfer is completed or failed, no step changes it.
C2_TerminalStatusKept ==
    [][\A id \in DOMAIN txs :
          txs[id].status \in {"completed", "failed"}
              => txs'[id].status = txs[id].status]_vars

\* C3: once burnTxHash is recorded, no step writes a different hash over it.
C3_BurnHashWrittenOnce ==
    [][\A id \in DOMAIN txs :
          txs[id].burnTxHash # NULL
              => txs'[id].burnTxHash = txs[id].burnTxHash]_vars

\* a burn report for row id is accepted by the route in this step
BurnAccepted(id) ==
    \E p \in Procs :
        req[p].pc = "idle" /\ req'[p].pc = "burn_write" /\ req'[p].id = id

\* a burn report for row id is answered by the route in this step, without a write pending
BurnAnswered(id) ==
    req' = req /\ last' # last /\ last'.op = "burn" /\ last'.id = id

\* C4: a burn report that arrives for a transfer whose burn hash is recorded is
\* not accepted: it is answered AlreadyBurned and the row keeps every field.
C4_SecondBurnRejected ==
    [][\A id \in DOMAIN txs :
          txs[id].burnTxHash # NULL
              => /\ ~BurnAccepted(id)
                 /\ BurnAnswered(id) => last'.result = "AlreadyBurned" /\ txs' = txs]_vars

C4_Witness ==
    /\ last = [NoResponse EXCEPT !.op = "burn", !.result = "AlreadyBurned", !.id = 1]
    /\ Exists(1)
    /\ txs[1].burnTxHash # NULL
    /\ txs[1].status = "burned"

\* the call of slot p received the attestation from the service in this step
ApiCheckAttested(p) ==
    /\ req[p].pc = "chk_write"
    /\ req'[p].pc = "st_reread"
    /\ req'[p].via = "service"

\* the worker's call for row id received the attestation in this step
WorkerCheckAttested(id) ==
    /\ wrk[id].pc = "chk_write"
    /\ wrk'[id].pc = "none"
    /\ id \in DOMAIN jobs
    /\ id \notin DOMAIN jobs'

\* C5: when a checkAttestation call receives the attestation for a row that
\* another call has already completed, it applies no update to the row.
C5_SecondCheckWritesNothing ==
    [][/\ \A p \in Procs :
            ApiCheckAttested(p) /\ txs[req[p].id].attestationStatus = "complete"
                => txs' = txs
       /\ \A id \in DOMAIN wrk :
            WorkerCheckAttested(id) /\ txs[id].attestationStatus = "complete"
                => txs' = txs]_vars

\* C6: a checkAttestation call that reads a row whose attestation is complete
\* writes nothing, makes no service call and returns the stored attestation
\* (the status route goes on to its re-read with it, the worker drops the job).
C6_CheckIdempotentWhenComplete ==
    [][/\ \A p \in Procs :
            req[p].pc = "chk_read" /\ req'[p] # req[p]
            /\ txs[req[p].id].attestationStatus = "complete"
                => /\ txs' = txs
                   /\ req'[p].pc = "st_reread"
                   /\ req'[p].via = "stored"
                   /\ req'[p].ret = txs[req[p].id].attestation
                   /\ req'[p].ret # NULL
       /\ \A id \in DOMAIN wrk :
            wrk[id].pc = "chk_read" /\ wrk'[id] # wrk[id]
            /\ txs[id].attestationStatus = "complete"
                => /\ txs' = txs
                   /\ wrk'[id].pc = "none"
                   /\ id \notin DOMAIN jobs']_vars

C6_Witness ==
    \E p \in Procs :
        /\ req[p].pc = "st_reread"
        /\ req[p].via = "stored"
        /\ req[p].ret = txs[req[p].id].attestation
        /\ txs[req[p].id].attestationStatus = "complete"

\* C7: every persisted transfer has exactly one of its two domains equal to
\* the Starknet domain.
C7_ExactlyOneStarknetSide ==
    \A id \in DOMAIN txs :
        (txs[id].sourceDomainId = STARKNET_DOMAIN_ID)
            # (txs[id].destDomainId = STARKNET_DOMAIN_ID)

Registered(d) == getChainConfig(d) # "undefined"

\* C8: an initiate call for two registered domains is answered InvalidPair and
\* inserts nothing when neither is Starknet, and when exactly one is it is
\* answered with the id of one new row in status initiated, attestation pending.
C8_InitiateRouteValidation ==
    [][(last' # last /\ last'.op = "initiate"
        /\ Registered(last'.src) /\ Registered(last'.dst))
          => LET s == last'.src
                 d == last'.dst
             IN /\ (s # STARKNET_DOMAIN_ID /\ d # STARKNET_DOMAIN_ID)
                      => last'.result = "InvalidPair" /\ txs' = txs
                /\ ((s = STARKNET_DOMAIN_ID) # (d = STARKNET_DOMAIN_ID))
                      => /\ last'.result = "ok"
                         /\ DOMAIN txs' = DOMAIN txs \cup {last'.id}
                         /\ last'.id \notin DOMAIN txs
                         /\ \A i \in DOMAIN txs : txs'[i] = txs[i]
                         /\ txs'[last'.id].sourceDomainId = s
                         /\ txs'[last'.id].destDomainId = d
                         /\ txs'[last'.id].status = "initiated"
                         /\ txs'[last'.id].attestationStatus = "pending"]_vars

C8_Witness ==
    /\ last.op = "initiate"
    /\ last.result = "InvalidPair"
    /\ Registered(last.src) /\ Registered(last.dst)
    /\ Exists(1)
    /\ txs[1].status = "initiated"
    /\ txs[1].sourceDomainId = 5
    /\ txs[1].destDomainId = STARKNET_DOMAIN_ID

\* C9: in every state, a transfer's attestation is non-null exactly when its
\* attestationStatus is complete.
C9_AttestationIffComplete ==
    \A id \in DOMAIN txs :
        (txs[id].attestation # NULL) <=> (txs[id].attestationStatus = "complete")

C9_Witness ==
    \E id \in DOMAIN txs :
        /\ txs[id].attestationStatus = "complete"
        /\ txs[id].attestation = IrisAttestation(txs[id].burnTxHash)
        /\ txs[id].status = "failed"

\* C10: in every state, messageHash is present exactly when messageBytes is,
\* and it is the hash of the stored messageBytes.
C10_MessageHashOfBytes ==
    \A id \in DOMAIN txs :
        /\ (txs[id].messageHash # NULL) <=> (txs[id].messageBytes # NULL)
        /\ txs[id].messageBytes # NULL
              => txs[id].messageHash = computeMessageHash(txs[id].messageBytes)

C10_Witness ==
    \E id \in DOMAIN txs :
        /\ txs[id].burnTxHash # NULL
        /\ txs[id].messageBytes # NULL
        /\ txs[id].messageBytes # <<"aa">>
        /\ txs[id].messageBytes # IrisMessage(txs[id].burnTxHash)
        /\ txs[id].messageHash # NULL

\* C11: in every state, a transfer whose status is completed has an attestation:
\* no route completes a transfer before its attestation is stored.
C11_NoMintBeforeAttestation ==
    \A id \in DOMAIN txs :
        txs[id].status = "completed" => txs[id].attestation # NULL

\* a complete-endpoint call was rejected on a burned transfer without attestation
C11_Witness ==
    /\ last.op = "complete"
    /\ last.result = "AttestationNotReady"
    /\ Exists(last.id)
    /\ txs[last.id].burnTxHash # NULL
    /\ txs[last.id].attestation = NULL
    /\ txs[last.id].status = "burned"

\* C12: a mint report whose id matches no transfer is answered NotFound and
\* no record changes; no mint write is started for it.
C12_MintUnknownIdRejected ==
    [][/\ \A p \in Procs :
            req'[p].pc = "mint_write" /\ req[p].pc # "mint_write" => Exists(req'[p].id)
       /\ (last' # last /\ last'.op = "complete" /\ ~Exists(last'.id))
            => last'.result = "NotFound" /\ txs' = txs]_vars

\* a mint report for an unknown id was answered NotFound while a transfer exists
C12_Witness ==
    /\ last.op = "complete"
    /\ last.result = "NotFound"
    /\ ~Exists(last.id)
    /\ Exists(1)
    /\ txs[1].attestation # NULL

\* C13: every checkAttestation call that reaches the service lookup on a
\* transfer whose attestation is not complete adds exactly one to the stored
\* attempt count, whatever the service answers.
C13_EveryCheckCountsOnce ==
    [][/\ \A p \in Procs :
            req[p].pc = "chk_write" /\ req'[p] # req[p]
            /\ txs[req[p].id].attestationStatus # "complete"
                => txs'[req[p].id].attestationAttempts
                       = txs[req[p].id].attestationAttempts + 1
       /\ \A id \in DOMAIN wrk :
            wrk[id].pc = "chk_write" /\ wrk'[id] # wrk[id]
            /\ txs[id].attestationStatus # "complete"
                => txs'[id].attestationAttempts = txs[id].attestationAttempts + 1]_vars

\* a burn report made without message bytes completes in this step after its
\* lookup failed or found nothing
BurnWithoutBytesCompletes(p) ==
    /\ req[p].pc = "burn_write"
    /\ req'[p] # req[p]
    /\ ~Truthy(req[p].messageBytes)
    /\ last'.op = "burn"
    /\ last'.lookup \in {"throw", "null"}

\* the call succeeded, recorded the hash and left the message fields null
BurnRecordedBare(p) ==
    /\ last'.result = "ok"
    /\ txs'[req[p].id].burnTxHash = req[p].txHash
    /\ txs'[req[p].id].status = "burned"
    /\ txs'[req[p].id].messageBytes = NULL
    /\ txs'[req[p].id].messageHash = NULL

\* C14 as stated: such a call records the burn hash, sets status burned and
\* leaves messageBytes, messageHash and nonce null.
C14_BurnWithoutBytesAsStated ==
    [][\A p \in Procs :
          BurnWithoutBytesCompletes(p)
              => BurnRecordedBare(p) /\ txs'[req[p].id].nonce = NULL]_vars

\* C14: such a call records the burn hash, sets status burned, leaves
\* messageBytes and messageHash null and stores the nonce the caller supplied
\* (null when none was supplied).
C14_BurnWithoutBytesSucceeds ==
    [][\A p \in Procs :
          BurnWithoutBytesCompletes(p)
              => BurnRecordedBare(p) /\ txs'[req[p].id].nonce = OrNull(req[p].nonce)]_vars

\* a burn was recorded without bytes after a failed lookup, nothing else written yet
C14_Witness ==
    /\ last.op = "burn"
    /\ last.result = "ok"
    /\ last.lookup = "throw"
    /\ txs[last.id].status = "burned"
    /\ txs[last.id].burnTxHash # NULL
    /\ txs[last.id].messageBytes = NULL
    /\ txs[last.id].messageHash = NULL
    /\ txs[last.id].nonce = NULL

\* C15: every getTransactionStatus call answers with a mint payload exactly
\* when the row it read has both message bytes and an attestation, and it
\* writes nothing.
C15_MintPayloadIffBothPresent ==
    [][(last' # last /\ last'.op = "status" /\ last'.mint # "n/a"
        /\ req' = req /\ Exists(last'.id))
          => /\ txs' = txs
             /\ last'.mint \in {"evm", "starknet", "solana"}
                   <=> (Truthy(txs[last'.id].attestation)
                        /\ Truthy(txs[last'.id].messageBytes))]_vars

\* the condition the query is to select, stated on the columns
IsPollable(row) ==
    /\ row.attestationStatus = "pending"
    /\ row.status = "burned"
    /\ row.burnTxHash # NULL
    /\ (row.neverPolled \/ row.lastCheckAge > RECHECK_SECONDS)

Pollable == {i \in DOMAIN txs : IsPollable(txs[i])}

\* C16: getPendingAttestations returns only pollable transfers, each once,
\* oldest-created first, as many as the limit allows and the oldest of them
\* when there are more; the call changes no state.
C16_PendingQueryExact ==
    [][(last' # last /\ last'.op = "getPendingAttestations")
          => LET res == last'.result
             IN /\ txs' = txs
                /\ \A k \in DOMAIN res : res[k] \in Pollable
                /\ \A k, l \in DOMAIN res :
                      k < l => txs[res[k]].createdAt < txs[res[l]].createdAt
                /\ Len(res) = IF Cardinality(Pollable) < PendingLimit
                              THEN Cardinality(Pollable) ELSE PendingLimit
                /\ \A i \in Pollable :
                      (\A k \in DOMAIN res : res[k] # i)
                          => \A k \in DOMAIN res :
                                txs[res[k]].createdAt < txs[i].createdAt]_vars

\* the limit cut off a pollable row and the result is not in table order
C16_Witness ==
    /\ last.op = "getPendingAttestations"
    /\ Len(last.result) = PendingLimit
    /\ Cardinality(Pollable) > PendingLimit
    /\ last.result[1] > last.result[2]
    /\ \E i \in Pollable : ~txs[i].neverPolled

\* the worker's check for row id returns not-ready in this step
WorkerCheckNotReady(id) ==
    /\ wrk[id].pc \in {"chk_read", "chk_write"}
    /\ wrk'[id].pc \in {"none", "mark"}
    /\ id \in DOMAIN jobs
    /\ ~(wrk[id].pc = "chk_write" /\ WorkerCheckAttested(id))
    /\ ~(wrk[id].pc = "chk_read" /\ Truthy(txs[id].attestation)
         /\ checkEarlyComplete(txs[id]))

\* C17: a not-ready check below the last attempt keeps the job with one more
\* attempt; the not-ready check that brings the count to MAX_ATTEMPTS removes
\* the job and goes on to markFailed, which writes status failed with the
\* timeout message.
C17_PollExhaustion ==
    [][\A id \in DOMAIN wrk :
          /\ (WorkerCheckNotReady(id) /\ jobs[id].attempts + 1 < MaxAttempts)
                => /\ id \in DOMAIN jobs'
                   /\ jobs'[id].attempts = jobs[id].attempts + 1
                   /\ wrk'[id].pc = "none"
          /\ (WorkerCheckNotReady(id) /\ jobs[id].attempts + 1 = MaxAttempts)
                => /\ id \notin DOMAIN jobs'
                   /\ wrk'[id].pc = "mark"
          /\ (wrk[id].pc = "mark" /\ wrk'[id] # wrk[id])
                => /\ txs'[id].status = "failed"
                   /\ txs'[id].errorMessage = TIMEOUT_MESSAGE
                   /\ wrk'[id].pc = "none"]_vars

\* a transfer that was never attested failed by exhaustion and is no longer tracked
C17_Witness ==
    \E id \in DOMAIN txs :
        /\ txs[id].status = "failed"
        /\ txs[id].errorMessage = TIMEOUT_MESSAGE
        /\ txs[id].attestationStatus = "pending"
        /\ txs[id].attestationAttempts = MaxAttempts
        /\ id \notin DOMAIN jobs
        /\ wrk[id].pc = "none"

\* C18: whenever a check that did not produce an attestation (not ready, or
\* ended by an error) raises a tracked job's attempt count, it raises it by
\* one, and the job is either below the maximum and given a retry time of
\* now plus a backoff delay, or removed from the job set
C18_ErrorCountsLikeNotReady ==
    [][\A o \in DOMAIN poller.objs :
          (o \in Tracked(poller) /\ poller'.objs[o].attempts > poller.objs[o].attempts)
             => /\ poller'.objs[o].attempts = poller.objs[o].attempts + 1
                /\ IF poller'.objs[o].attempts >= MaxAttempts
                   THEN o \notin Tracked(poller')
                   ELSE /\ o \in Tracked(poller')
                        /\ poller'.objs[o].nextRetry - poller'.now
                              \in calculateBackoff(poller'.objs[o].attempts)]_vars

\* a step in which the notification handler or loadPendingJobs ran
Offered ==
    \/ (poller'.notif \subseteq poller.notif /\ poller'.notif # poller.notif)
    \/ poller'.scans < poller.scans

\* C19: the job set holds one job per transfer id, and a notification or a
\* scan result for an id that is tracked (its check in flight or not) leaves
\* that job, its attempt count and its retry time as they were
C19_TrackedJobNotReEnqueued ==
    [][/\ \A id \in DOMAIN poller.jobs : poller.objs[poller.jobs[id]].id = id
       /\ Cardinality(Tracked(poller)) = Cardinality(DOMAIN poller.jobs)
       /\ Offered => \A id \in DOMAIN poller.jobs :
                        /\ id \in DOMAIN poller'.jobs
                        /\ poller'.jobs[id] = poller.jobs[id]
                        /\ poller'.objs[poller.jobs[id]] = poller.objs[poller.jobs[id]]]_vars

\* an enqueueJob for a tracked id has returned early while a check of a
\* tracked job, already counted once, is in flight
C19_Witness ==
    /\ poller.deduped
    /\ \E c \in poller.calls : /\ c.obj \in Tracked(poller)
                                /\ poller.objs[c.obj].attempts > 0

\* C20: at every moment the poller has at most BatchSize (10 in the code)
\* processJob calls, each holding one attestation check, in flight
C20_ChecksInFlightBounded == Cardinality(poller.calls) <= BatchSize

\* C21: within one poller no job has two checks in flight at the same time
\* (a batch is dispatched only when the previous one has settled)
C21_OneCheckPerJob ==
    \A c \in poller.calls : \A d \in poller.calls :
        poller.objs[c.obj].id = poller.objs[d.obj].id => c = d

(* ---------------- AttestationWorker: progress assumptions --------------- *)
\* the job whose attestation-service call may never return
HungId == 1

\* the lookup of a job other than HungId returns
OtherChkWrite ==
    \E c \in poller.calls : poller.objs[c.obj].id # HungId /\ JobChkWrite(c)

\* timers fire, time passes, store queries and notifications are delivered,
\* and every attestation-service call returns except those made for HungId
PollerProgress ==
    /\ WF_vars(Advance)
    /\ WF_vars(ProcessJobs)
    /\ WF_vars(IdleScan)
    /\ WF_vars(ScanLoaded)
    /\ WF_vars(\E n \in poller.notif : OnNotification(n))
    /\ WF_vars(\E c \in poller.calls : JobChkRead(c))
    /\ WF_vars(\E c \in poller.calls : JobMarkFailed(c))
    /\ WF_vars(OtherChkWrite)

SpecPollerHang == InitPoller /\ [][NextPoller]_vars /\ PollerProgress

\* a job of the transfer is tracked and its retry time has elapsed
Due(id) ==
    /\ id \in DOMAIN poller.jobs
    /\ poller.objs[poller.jobs[id]].nextRetry <= poller.now

\* a check of the transfer's job is in flight
InFlight(id) == \E c \in poller.calls : poller.objs[c.obj].id = id

\* C22: when the attestation-service call of one job never returns, every
\* other tracked job whose retry time has elapsed is still eventually checked
\* (or leaves the job set), as long as the run may start another batch
C22_HungJobDoesNotStall ==
    \A id \in (1..PollerRows) \ {HungId} :
        (Due(id) /\ poller.running /\ poller.nbatch < MaxBatches)
            ~> (InFlight(id) \/ id \notin DOMAIN poller.jobs \/ poller.nbatch = MaxBatches)

(* ------------------ two AttestationWorker instances --------------------- *)
\* a second server process runs its own AttestationWorker on the same store:
\* one instance is followed with its timer and batches (poller), the other
\* by its job set and calls alone (running, jobs, wrk); one transfer is burned
InitDuplicate ==
    /\ InitPoller
    /\ \A id \in DOMAIN txs : id # 1 => txs[id] = NewRow(0, 25)

NextDuplicate ==
    \/ PollerStart
    \/ ScanLoaded
    \/ \E n \in poller.notif : OnNotification(n)
    \/ Advance
    \/ ProcessJobs
    \/ IdleScan
    \/ \E c \in PollerCalls : JobChkRead(c)
    \/ \E c \in PollerCalls : JobChkWrite(c)
    \/ \E c \in PollerCalls : JobMarkFailed(c)
    \/ WorkerStart
    \/ \E id \in 1..PollerRows : LoadPendingJobs(id)
    \/ \E id \in 1..PollerRows : Dispatch(id)
    \/ \E id \in 1..PollerRows : WorkerChkRead(id)
    \/ \E id \in 1..PollerRows : WorkerChkWrite(id)
    \/ \E id \in 1..PollerRows : WorkerMarkFailed(id)

SpecDuplicate == InitDuplicate /\ [][NextDuplicate]_vars

\* the instance followed by poller has created one job for the transfer and
\* that job has not reached the maximum: this instance has not failed it
NeverExhaustedHere(id) ==
    /\ Cardinality({o \in DOMAIN poller.objs : poller.objs[o].id = id}) = 1
    /\ \A o \in DOMAIN poller.objs :
          poller.objs[o].id = id => poller.objs[o].attempts < MaxAttempts

\* C23: once one poller instance has failed a transfer by exhaustion, no
\* later step of the other instance changes the transfer's status
C23_DuplicatePollersSafe ==
    [][\A id \in DOMAIN txs :
          (txs[id].status = "failed" /\ NeverExhaustedHere(id) /\ poller' # poller)
             => txs'[id].status = "failed"]_vars

\* timers fire, time passes, and every store query and attestation-service
\* call returns; a notification may stay undelivered for ever (lost)
PollerFair ==
    /\ WF_vars(Advance)
    /\ WF_vars(ProcessJobs)
    /\ WF_vars(IdleScan)
    /\ WF_vars(ScanLoaded)
    /\ WF_vars(\E c \in poller.calls : JobChkRead(c))
    /\ WF_vars(\E c \in poller.calls : JobChkWrite(c))
    /\ WF_vars(\E c \in poller.calls : JobMarkFailed(c))

SpecPollerFair == InitPoller /\ [][NextPoller]_vars /\ PollerFair

\* the run has used up the clock, the batches or the job objects it may use
Spent ==
    \/ poller.timer.at > MaxTime
    \/ poller.nbatch = MaxBatches
    \/ Len(poller.objs) + Cardinality(pendingIds \ DOMAIN poller.jobs) > MaxObjs

StatusSteps(p) == req'[p] # req[p] /\ (req[p].op = "status" \/ req'[p].op = "status")

\* the delivery check for a Starknet destination reports delivered exactly
\* for a listed message of status complete with an attestation that is
\* present and not the pending sentinel
DeliveredAsStated ==
    \A h \in TxHashes : \A resp \in IrisResponses(h) :
        checkMessageDelivered(resp, TRUE)
          <=> /\ resp.kind = "ok"
              /\ Len(resp.messages) > 0
              /\ resp.messages[1].status = "complete"
              /\ resp.messages[1].attestation \notin {NULL, EMPTY, PENDING}

C27_StoredAttestationIsHex ==
    \A id \in DOMAIN txs :
        /\ txs[id].attestation # NULL
              => startsWith0x(txs[id].attestation) /\ txs[id].attestation # PENDING
        /\ txs[id].attestationStatus = "complete" => txs[id].attestation # NULL

\* the service has listed the message of a transfer (its bytes were stored by
\* a check) without a usable attestation: the transfer is still pending
C27_Witness ==
    \E id \in DOMAIN txs :
        /\ txs[id].messageBytes = IrisMessage(txs[id].burnTxHash)
        /\ txs[id].attestationAttempts > 0
        /\ txs[id].attestation = NULL
        /\ txs[id].attestationStatus = "pending"
        /\ txs[id].status = "burned"

\* C28: while the poller listens, every write that leaves a transfer burned
\* with a message hash and a pending attestation publishes a notification
\* with the transfer's id, message hash and attempt count, and every
\* notification published is for such a transfer: none is published for one
\* that the write leaves attested, completed or failed
C28_NotificationOnBurned ==
    [][poller.listening =>
          /\ \A id \in DOMAIN txs :
                (/\ txs'[id] # txs[id]
                 /\ txs'[id].status = "burned"
                 /\ txs'[id].messageHash # NULL
                 /\ txs'[id].attestationStatus = "pending")
                   => [id |-> id, messageHash |-> txs'[id].messageHash,
                       attempts |-> txs'[id].attestationAttempts] \in poller'.notif
          /\ \A n \in poller'.notif \ poller.notif :
                /\ txs'[n.id] # txs[n.id]
                /\ txs'[n.id].status = "burned"
                /\ txs'[n.id].attestationStatus = "pending"
                /\ n.messageHash = txs'[n.id].messageHash
                /\ n.messageHash # NULL
                /\ n.attempts = txs'[n.id].attestationAttempts]_vars

\* notifications of a recorded burn and of a later check that found the
\* attestation not ready are both waiting
C28_Witness ==
    /\ \E n \in poller.notif : n.attempts = 0 /\ txs[n.id].status = "burned"
    /\ \E n \in poller.notif : n.attempts > 0
    /\ \E id \in DOMAIN txs : txs[id].status \in {"attested", "failed"}

\* the complete tables a load has fetched and not yet installed
Fetched == {registry.loads[p].rows : p \in {q \in Procs : registry.loads[q].pc = "fetched"}}

\* C29: the cache changes only by being replaced with the complete table a
\* reload fetched, and every lookup, also one made while a reload is in
\* progress, returns what the complete table then installed holds
C29_RegistryReplacedWhole ==
    [][/\ registry'.cache # registry.cache => registry'.cache \in Fetched
       /\ registry'.seen # registry.seen =>
             /\ registry'.cache = registry.cache
             /\ registry'.seen.type = getChainConfigIn(registry.cache, registry'.seen.domainId)]_vars

\* a lookup made while a reload holding a different table was in progress
\* has returned the previous table's answer
C29_Witness ==
    \E p \in Procs :
        /\ registry.loads[p].pc = "fetched"
        /\ registry.cache # <<>>
        /\ registry.seen.domainId = STARKNET_DOMAIN_ID
        /\ registry.seen.type = "starknet"
        /\ STARKNET_DOMAIN_ID \notin DOMAIN registry.loads[p].rows

\* C30: in every reachable state a transfer whose status is failed carries an
\* error message that is neither null nor the empty string
C30_FailedHasErrorMessage ==
    \A id \in DOMAIN txs :
        txs[id].status = "failed" => Truthy(txs[id].errorMessage)

\* a burned transfer was marked failed and its row carries the message
C30_Witness ==
    \E id \in DOMAIN txs :
        /\ txs[id].status = "failed"
        /\ Truthy(txs[id].burnTxHash)
        /\ Truthy(txs[id].errorMessage)

\* C31: the burn payload initiate returns carries a finality threshold and a
\* maximum fee fixed by the fast flag alone, for every source chain family:
\* 1000 and 10000 for a fast transfer, 2000 and 0 for a standard one
C31_BurnTermsFollowFastFlag ==
    (calc.fn = "initiateBridge" /\ calc.out.result = "ok") =>
        IF calc.arg[4] = "false"
        THEN {<<"minFinalityThreshold", STANDARD_THRESHOLD>>, <<"maxFee", 0>>} \subseteq calc.out.args
        ELSE {<<"minFinalityThreshold", FAST_THRESHOLD>>, <<"maxFee", FAST_MAX_FEE>>} \subseteq calc.out.args

\* a source/destination pair of chain families no burn builder accepts
UnsupportedRoute(sourceType, destType) ==
    \/ sourceType \notin {"evm", "starknet", "solana"}
    \/ destType = "undefined"
    \/ sourceType = destType /\ sourceType # "evm"

\* C32: a burn or mint build for an unsupported combination of chain families
\* throws, and a payload that is returned is the one of the family asked for
\* (the source's for a burn, the destination's for a mint)
C32_UnsupportedRouteFails ==
    /\ calc.fn = "buildBurnTxData" =>
          /\ UnsupportedRoute(getChainConfig(calc.arg[1]), getChainConfig(calc.arg[2]))
                => calc.out = "throw"
          /\ calc.out # "throw" => calc.out = getChainConfig(calc.arg[1])
    /\ (calc.fn = "buildMintTxData" /\ calc.out # "throw")
          => calc.out = getChainConfig(calc.arg[1])

\* a burn build from Starknet to Starknet has thrown
C32_Witness ==
    /\ calc.fn = "buildBurnTxData"
    /\ getChainConfig(calc.arg[1]) = "starknet"
    /\ getChainConfig(calc.arg[2]) = "starknet"
    /\ calc.out = "throw"

\* the pre-jitter delay never exceeds MAX_DELAY and does not decrease with
\* the attempt count; the scheduled delay is at most 1.3 times the pre-jitter
\* delay, hence at most 1.3 * MAX_DELAY
BackoffCapped(n, delay) ==
    LET d == exponentialDelayExact(n)
        next == exponentialDelayExact(n + 1)
    IN /\ d.num <= MAX_DELAY * d.den
       /\ d.num * next.den <= next.num * d.den
       /\ 10 * delay * d.den <= 13 * d.num
       /\ 10 * delay <= 13 * MAX_DELAY

\* C33 as stated: the scheduled delay is at least the pre-jitter delay d(n)
C33_BackoffAsStated ==
    calc.fn = "calculateBackoff" =>
        /\ BackoffCapped(calc.arg[1], calc.out)
        /\ calc.out * exponentialDelayExact(calc.arg[1]).den
              >= exponentialDelayExact(calc.arg[1]).num

\* C33: the pre-jitter delay d(n) = min(2s * 1.5^n, 60s) is non-decreasing
\* and at most 60s, and the scheduled delay lies between d(n) rounded down to
\* a whole millisecond and 1.3 * d(n), so it never exceeds 1.3 * 60s
C33_BackoffWithinRange ==
    calc.fn = "calculateBackoff" =>
        /\ BackoffCapped(calc.arg[1], calc.out)
        /\ calc.out >= exponentialDelayExact(calc.arg[1]).num
                          \div exponentialDelayExact(calc.arg[1]).den

\* a backoff at the cap was scheduled with the largest jitter
C33_Witness ==
    /\ calc.fn = "calculateBackoff"
    /\ exponentialDelayExact(calc.arg[1]).num = MAX_DELAY
    /\ calc.arg[2] = JitterSteps - 1
    /\ calc.out > MAX_DELAY

\* the bytes of an address as written, as hex digit values over its family's width
addressBytes(address, width) ==
    LET s == padStart(replace0x(address), width)
    IN [i \in 1..width |-> hexVal(s[i])]

\* the last width hex digit values of a sequence of them
lastDigits(digits, width) == SubSeq(digits, Len(digits) - width + 1, Len(digits))

\* the digits of a number, most significant first, over a width
RECURSIVE toDigits(_, _)
toDigits(v, width) ==
    IF width = 0 THEN <<>> ELSE toDigits(v \div 16, width - 1) \o <<v % 16>>

\* the number a sequence of decimal digits stands for
RECURSIVE parseDecimal(_)
parseDecimal(ds) ==
    IF ds = <<>> THEN 0 ELSE 10 * parseDecimal(SubSeq(ds, 1, Len(ds) - 1)) + ds[Len(ds)]

\* the address a reader of the wide word format extracts: the low-order bytes
\* of a bytes32 string, of a (low, high) pair, or of a 32-byte buffer
extractAddress(fn, out, width) ==
    IF fn \in {"addressToBytes32", "starknetAddressToBytes32"}
    THEN lastDigits([i \in 1..(Len(out) - 2) |-> hexVal(out[i + 2])], width)
    ELSE IF fn \in {"evmAddressToU256", "solanaAddressToU256"}
    THEN lastDigits(toDigits(parseDecimal(out[2]) * Pow(16, HalfChars) + parseDecimal(out[1]),
                             WordChars), width)
    ELSE lastDigits([i \in 1..(2 * Len(out)) |->
                        IF i % 2 = 1 THEN out[(i + 1) \div 2] \div 16 ELSE out[i \div 2] % 16],
                    width)

\* the width of the address family a translation takes
familyWidth(fn) ==
    IF fn \in {"addressToBytes32", "evmAddressToU256", "evmAddressToBuffer"}
    THEN EvmChars ELSE WordChars

Stopped(pl) == ~pl.running /\ pl.stop = "done"

\* C35: once stop() has completed, and until start() is called again, the
\* subscription connection is released, no processing timer is armed and no
\* new check is dispatched, whatever was in flight when stop() was called
C35_StopIsClean ==
    [][/\ Stopped(poller) => (~poller.listening /\ poller.timer = NoTimer)
       /\ Stopped(poller') => (~poller'.listening /\ poller'.timer = NoTimer)
       /\ Stopped(poller) => {c \in poller'.calls : c.pc = "chk_read"}
                                \subseteq {c \in poller.calls : c.pc = "chk_read"}]_vars

\* C36: a step of the poller sets a transfer's status to failed only as the
\* markFailed of a processJob call whose job has counted MAX_ATTEMPTS
\* attempts; a check that succeeds, a not-ready check below the maximum, a
\* check ended by an error, an enqueue, a scan and stop() never do
C36_FailedOnlyAtMaxAttempts ==
    [][\A id \in DOMAIN txs :
          (txs'[id].status = "failed" /\ txs[id].status # "failed")
             => \E c \in poller.calls :
                   /\ c.pc = "mark"
                   /\ poller.objs[c.obj].id = id
                   /\ poller.objs[c.obj].attempts >= MaxAttempts
                   /\ id \notin DOMAIN poller'.jobs \/ poller'.jobs[id] # c.obj]_vars

\* the poller has failed a transfer after MAX_ATTEMPTS batches
C36_Witness ==
    \E id \in DOMAIN txs :
        /\ txs[id].status = "failed"
        /\ txs[id].errorMessage = TIMEOUT_MESSAGE
        /\ poller.nbatch >= MaxAttempts
        /\ poller.calls = {}

\* C37: an initiate call that fails (invalid pair, unknown chain, or a burn
\* payload that cannot be built) leaves the store as it was
C37_FailedInitiateWritesNothing ==
    [][(last' # last /\ last'.op = "initiate" /\ last'.result # "ok") => txs' = txs]_vars

\* no batch and no loadPendingJobs call is in progress
Quiet(pl) == pl.calls = {} /\ pl.scans = 0

\* C38: while the poller runs, a processing timer is armed or a batch or a
\* re-scan is in progress; with neither in progress the timer is the idle
\* re-scan when no job is tracked and, when jobs are tracked, a processing
\* timer set for the earliest nextRetry (or already due)
C38_NoLostWakeup ==
    poller.running =>
        /\ poller.timer # NoTimer \/ ~Quiet(poller)
        /\ Quiet(poller) =>
              IF Tracked(poller) = {} THEN poller.timer.kind = "idle"
              ELSE /\ poller.timer.kind = "process"
                   /\ \/ poller.timer.at <= poller.now
                      \/ poller.timer.at = poller.objs[getNextJob(poller)].nextRetry

\* a batch has ended and the timer is set for a tracked job's retry, still in the future
C38_Witness ==
    /\ poller.running
    /\ Quiet(poller)
    /\ poller.nbatch > 0
    /\ Tracked(poller) # {}
    /\ poller.timer.kind = "process"
    /\ poller.timer.at > poller.now

\* the statuses a resolved transfer has
Resolved == {"attested", "completed", "failed"}

\* C39: the poller's job set never tracks a transfer whose status is
\* attested, completed or failed; in particular a notification delivered
\* after the job was resolved creates no new job
C39_NoJobForResolved ==
    \A id \in DOMAIN poller.jobs : txs[id].status \notin Resolved

\* C40: in every reachable state a transfer that holds an attestation also
\* holds its message bytes and message hash, whatever the order in which a
\* slow recordBurn and a checkAttestation write
C40_AttestedHasMessage ==
    \A id \in DOMAIN txs :
        Truthy(txs[id].attestation)
            => Truthy(txs[id].messageBytes) /\ Truthy(txs[id].messageHash)

====
